---- MODULE Spec2Model ----
(***************************************************************************)
(* The Tourli chatbot: the retrieval engine (src/src/retrieval), its two   *)
(* callers (the Flask layer chatbot_api.py and the command-line loop       *)
(* cli_chatbot.py) and the data loaders.                                   *)
(*                                                                         *)
(* Text is a sequence of one-character strings.  A character outside ASCII *)
(* is written by name ("e_grave", "emoji", "fraktur_H").  Python's None is *)
(* the empty sequence where the code only tests truthiness.                *)
(*                                                                         *)
(* Scores of answers are integers in millionths (Score(1, 1) is 1.0).      *)
(* Similarity ratios that are compared with a cutoff are kept exact, as a  *)
(* pair <<numerator, denominator>>; the code compares IEEE doubles, which  *)
(* agree with the exact values except on ties.  The TF-IDF cosine is 0 for *)
(* texts without a common term, 1.0 for texts with the same terms, and     *)
(* left open otherwise.  The lemmatizer is a table over the words of the   *)
(* model; the great-circle distance is stood for by a squared chord.  The  *)
(* iteration order of a Python set of strings depends on the hash seed of  *)
(* the process and is a field of the environment.                          *)
(***************************************************************************)
EXTENDS Integers, Sequences, FiniteSets, TLC

\* env:       the files on disk and the hash seed of the process
\* heap:      the Retriever objects constructed so far
\* retriever: the reference the caller keeps: an index into heap, 0 for None
\* pc:        where the caller is (in SpecApi: where each request thread is)
\* msg:       the question being handled (in SpecFn: the arguments of the call)
\* loc:       the locals of the running call
\* out:       what the call returned
\* hist:      bookkeeping of the constructions
VARIABLES env, heap, retriever, pc, msg, loc, out, hist

vars == <<env, heap, retriever, pc, msg, loc, out, hist>>

(***************************************************************************)
(* Characters and the library functions the code calls on strings          *)
(***************************************************************************)
AsciiLower == {"a","b","c","d","e","f","g","h","i","j","k","l","m",
               "n","o","p","q","r","s","t","u","v","w","x","y","z"}

AsciiUpper == {"A","B","C","D","E","F","G","H","I","J","K","L","M",
               "N","O","P","Q","R","S","T","U","V","W","X","Y","Z"}

Digits == {"0","1","2","3","4","5","6","7","8","9"}

\* the order of characters that Python's string comparison uses
CharSeq == <<" ","!","'",",","-","0","1","2","3","4","5","6","7","8","9","?",
             "A","B","C","D","E","F","G","H","I","J","K","L","M",
             "N","O","P","Q","R","S","T","U","V","W","X","Y","Z","_",
             "a","b","c","d","e","f","g","h","i","j","k","l","m",
             "n","o","p","q","r","s","t","u","v","w","x","y","z",
             "e_grave","l_stroke","emoji">>

\* str.lower() on one character
LowerChar(c) ==
    IF c \in AsciiUpper
    THEN LET i == CHOOSE k \in 1..Len(CharSeq) : CharSeq[k] = c IN CharSeq[i + 27]
    ELSE c

\* \s and \w of Python's re on str patterns (Unicode aware)
IsSpace(c) == c = " "

IsWordChar(c) == c \in AsciiLower \cup AsciiUpper \cup Digits \cup {"_", "e_grave", "l_stroke"}

\* the characters of s at the positions where keep is TRUE, as a tuple
KeepAt(s, keep) ==
    LET Chars(sel) == [i \in 1..Len(sel) |-> sel[i][1]] \o <<>>
    IN  Chars(SelectSeq([i \in 1..Len(s) |-> <<s[i], keep[i]>>], LAMBDA p : p[2]))

\* str.strip() followed by re.sub(r'\s+', ' ', .): also what str.split() sees
SquashSpaces(s) ==
    KeepAt(s, [i \in 1..Len(s) |->
                 \/ ~IsSpace(s[i])
                 \/ /\ i > 1
                    /\ ~IsSpace(s[i - 1])
                    /\ \E j \in (i + 1)..Len(s) : ~IsSpace(s[j])])

\* str.strip()
Strip(s) ==
    LET Trim(ink) ==
            IF ink = {} THEN <<>>
            ELSE SubSeq(s, CHOOSE i \in ink : \A j \in ink : i <= j,
                           CHOOSE i \in ink : \A j \in ink : i >= j)
    IN  Trim({i \in 1..Len(s) : ~IsSpace(s[i])})

\* str.split(): the maximal runs of non-space characters, in order
Split(s) ==
    LET starts == SelectSeq([i \in 1..Len(s) |-> i],
                            LAMBDA i : ~IsSpace(s[i]) /\ (i = 1 \/ IsSpace(s[i - 1])))
        EndOf(i) == CHOOSE e \in i..Len(s) :
                       /\ \A j \in i..e : ~IsSpace(s[j])
                       /\ (e = Len(s) \/ IsSpace(s[e + 1]))
        Runs(from) == [k \in 1..Len(from) |-> SubSeq(s, from[k], EndOf(from[k]))] \o <<>>
    IN  Runs(starts)

\* " ".join(words)
RECURSIVE Join(_)
Join(words) ==
    IF words = <<>> THEN <<>>
    ELSE IF Len(words) = 1 THEN words[1]
    ELSE words[1] \o <<" ">> \o Join(Tail(words))

\* a \b of re at position p of s (between s[p] and s[p+1])
Boundary(s, p) ==
    (p >= 1 /\ p <= Len(s) /\ IsWordChar(s[p]))
        # (p + 1 >= 1 /\ p + 1 <= Len(s) /\ IsWordChar(s[p + 1]))

\* w in s (substring test)
Contains(s, w) ==
    \E i \in 1..(Len(s) - Len(w) + 1) : SubSeq(s, i, i + Len(w) - 1) = w

\* re.search(r'\b' + re.escape(w) + r'\b', s)
WordSearch(w, s) ==
    \E i \in 1..(Len(s) - Len(w) + 1) :
        /\ SubSeq(s, i, i + Len(w) - 1) = w
        /\ Boundary(s, i - 1)
        /\ Boundary(s, i + Len(w) - 1)

\* a < b for Python strings
StrLess(a, b) ==
    LET Ord(c) == CHOOSE k \in 1..Len(CharSeq) : CharSeq[k] = c
    IN  \E k \in 1..(Len(a) + 1) :
            /\ k <= Len(b)
            /\ \A j \in 1..(k - 1) : a[j] = b[j]
            /\ (k > Len(a) \/ Ord(a[k]) < Ord(b[k]))

(***************************************************************************)
(* difflib.SequenceMatcher(None, a, b): the matching characters            *)
(***************************************************************************)
\* a[i..i+k-1] = b[j..j+k-1] inside the windows a[..ahi] and b[..bhi]
IsBlock(a, i, ahi, b, j, bhi, k) ==
    /\ i + k - 1 <= ahi
    /\ j + k - 1 <= bhi
    /\ \A d \in 0..(k - 1) : a[i + d] = b[j + d]

\* the longest block, the earliest in a and then the earliest in b
find_longest_match(a, alo, ahi, b, blo, bhi) ==
    LET Sized(pairs, k) == {p \in pairs : IsBlock(a, p[1], ahi, b, p[2], bhi, k)}
        Earliest(blocks) ==
            CHOOSE p \in blocks : \A q \in blocks :
                p[1] < q[1] \/ (p[1] = q[1] /\ p[2] <= q[2])
        Longest(pairs) ==
            Cardinality({k \in 1..(ahi - alo + 1) :
                            \E p \in pairs : IsBlock(a, p[1], ahi, b, p[2], bhi, k)})
        Found(pairs, k) == Earliest(Sized(pairs, k)) \o <<k>>
        Search(pairs) ==
            IF pairs = {} THEN <<alo, blo, 0>> ELSE Found(pairs, Longest(pairs))
    IN  Search({p \in (alo..ahi) \X (blo..bhi) : a[p[1]] = b[p[2]]})

\* the sum of the sizes of get_matching_blocks()
RECURSIVE MatchCount(_, _, _, _, _, _)
MatchCount(a, alo, ahi, b, blo, bhi) ==
    LET Around(m) ==
            IF m[3] = 0 THEN 0
            ELSE m[3] + MatchCount(a, alo, m[1] - 1, b, blo, m[2] - 1)
                      + MatchCount(a, m[1] + m[3], ahi, b, m[2] + m[3], bhi)
    IN  IF alo > ahi \/ blo > bhi THEN 0
        ELSE Around(find_longest_match(a, alo, ahi, b, blo, bhi))

\* SequenceMatcher(None, a, b).ratio() as <<2*matches, len(a)+len(b)>>; 1.0 when both are empty
Ratio(a, b) ==
    IF Len(a) + Len(b) = 0 THEN <<1, 1>>
    ELSE <<2 * MatchCount(a, 1, Len(a), b, 1, Len(b)), Len(a) + Len(b)>>

\* comparisons of exact ratios: x >= n/d, x > n/d, x < y
RatGE(x, n, d) == x[1] * d >= n * x[2]

RatGT(x, n, d) == x[1] * d > n * x[2]

RatLess(x, y) == x[1] * y[2] < y[1] * x[2]

\* a ratio rounded down to thousandths, for the blended answer scores
Milli(x) == (x[1] * 1000) \div x[2]

(***************************************************************************)
(* Text normalisation                                                      *)
(***************************************************************************)
\* a normalize_text that stops after lowering the text
normalize_text_lowered(text) == [i \in 1..Len(text) |-> LowerChar(text[i])] \o <<>>

\* retriever.normalize_text, for a str argument
normalize_text(text) ==
    LET Low(s) == [i \in 1..Len(s) |-> LowerChar(s[i])]
        \* NFKD, then encode('ascii', 'ignore'): an accented letter keeps its base
        \* letter, any other character outside ASCII is dropped
        \* (a letter-like symbol without a lower case, the black-letter H, becomes "H")
        Fold(s) == SelectSeq([i \in 1..Len(s) |-> IF s[i] = "e_grave" THEN "e"
                                                   ELSE IF s[i] = "fraktur_H" THEN "H"
                                                   ELSE s[i]],
                             LAMBDA c : c \notin {"emoji", "l_stroke"})
        \* re.sub(r"'s\b", '', .)
        Poss(s, i) == /\ i >= 1
                      /\ i + 1 <= Len(s)
                      /\ s[i] = "'"
                      /\ s[i + 1] = "s"
                      /\ (i + 2 > Len(s) \/ ~IsWordChar(s[i + 2]))
        NoPoss(s) == KeepAt(s, [i \in 1..Len(s) |-> ~Poss(s, i) /\ ~Poss(s, i - 1)])
        \* re.sub(r'[^a-z0-9\s]', '', .)
        Kept(s) == SelectSeq(s, LAMBDA c : c \in AsciiLower \/ c \in Digits \/ IsSpace(c))
    IN  SquashSpaces(Kept(NoPoss(Fold(Low(text)))))

\* WordNetLemmatizer().lemmatize(word) on the words of the model: the noun's base form
\* when WordNet knows one, else the word itself
Lemma(word) ==
    CASE word = <<"b","e","a","c","h","e","s">> -> <<"b","e","a","c","h">>
      [] word = <<"j","o","k","e","s">> -> <<"j","o","k","e">>
      [] word = <<"k","i","l","o","m","e","t","e","r","s">> -> <<"k","i","l","o","m","e","t","e","r">>
      [] OTHER -> word

\* retriever.lemmatize_text
lemmatize_text(text) ==
    LET Lemmas(words) == [k \in 1..Len(words) |-> Lemma(words[k])] \o <<>>
    IN  Join(Lemmas(Split(text)))

\* CityDetector._normalize_text
_normalize_text(text) ==
    LET low == [i \in 1..Len(text) |-> LowerChar(text[i])] \o <<>>
    IN  SquashSpaces(SelectSeq(low, LAMBDA c : IsWordChar(c) \/ IsSpace(c)))

\* str.replace(old, new), leftmost occurrences first, not overlapping
RECURSIVE Replace(_, _, _)
Replace(s, old, new) ==
    LET At(i) == SubSeq(s, i, i + Len(old) - 1) = old
        Cut(i) == SubSeq(s, 1, i - 1) \o new \o Replace(SubSeq(s, i + Len(old), Len(s)), old, new)
        First(at) == IF at = {} THEN s ELSE Cut(CHOOSE i \in at : \A j \in at : i <= j)
    IN  First({i \in 1..(Len(s) - Len(old) + 1) : At(i)})

(***************************************************************************)
(* The data the program is built from.  The tables of the code are cut to  *)
(* a few entries, in their declared order; the files on disk are model     *)
(* data.                                                                   *)
(***************************************************************************)
\* CityDetector.moroccan_cities (a set literal), in the order it is written
moroccan_cities == <<<<"c","a","s","a","b","l","a","n","c","a">>, <<"f","e","s">>, <<"r","a","b","a","t">>>>

\* CityDetector.moroccan_city_misspellings (a dict: insertion order)
moroccan_city_misspellings ==
    << <<<<"c","a","s","a">>, <<"c","a","s","a","b","l","a","n","c","a">>>>,
       <<<<"c","a","s","a","b","l","a","n","c","a">>, <<"c","a","s","a","b","l","a","n","c","a">>>> >>

\* Retriever.cities (a list)
cities == <<<<"C","a","s","a","b","l","a","n","c","a">>, <<"F","e","s">>, <<"R","a","b","a","t">>>>

\* Retriever.intent_keywords (a dict: declaration order)
intent_keywords ==
    << [intent |-> <<"g","r","e","e","t","i","n","g">>,            keywords |-> <<<<"h","e","l","l","o">>>>],
       [intent |-> <<"j","o","k","e","_","o","r","_","t","r","o","l","l">>,       keywords |-> <<<<"j","o","k","e">>>>],
       [intent |-> <<"a","s","k","_","b","e","a","c","h","e","s">>,         keywords |-> <<<<"b","e","a","c","h">>>>],
       [intent |-> <<"a","s","k","_","w","e","a","t","h","e","r">>,         keywords |-> <<<<"w","e","a","t","h","e","r">>>>],
       [intent |-> <<"a","s","k","_","d","i","s","t","a","n","c","e">>,        keywords |-> <<<<"d","i","s","t","a","n","c","e">>, <<"h","o","w"," ","f","a","r">>, <<"k","m">>>>],
       [intent |-> <<"g","e","n","e","r","a","l","_","m","o","r","o","c","c","o">>,     keywords |-> <<<<"a","b","o","u","t"," ","M","o","r","o","c","c","o">>>>],
       [intent |-> <<"i","r","r","e","l","e","v","a","n","t","_","q","u","e","s","t","i","o","n">>, keywords |-> <<<<"r","a","n","d","o","m">>>>] >>

\* Retriever.generic_fallback has three messages
NumFallbacks == 3

\* data/processed/worldcities_clean.csv: the rows, in file order.  population is the
\* parsed number, -1 for a text that float() rejects, -2 for one it reads as infinity.
worldcities_clean ==
    << [city |-> <<"T","o","k","y","o">>,      city_ascii |-> <<"T","o","k","y","o">>,      country |-> <<"J","a","p","a","n">>,
        lat |-> 36, lng |-> 140, population |-> 37732000],
       [city |-> <<"P","a","r","i","s">>,      city_ascii |-> <<"P","a","r","i","s">>,      country |-> <<"U","n","i","t","e","d"," ","S","t","a","t","e","s">>,
        lat |-> 34, lng |-> -96, population |-> 25171],
       [city |-> <<"P","a","r","i","s">>,      city_ascii |-> <<"P","a","r","i","s">>,      country |-> <<"F","r","a","n","c","e">>,
        lat |-> 49, lng |-> 2,   population |-> 11060000],
       [city |-> <<"C","a","s","a","b","l","a","n","c","a">>, city_ascii |-> <<"C","a","s","a","b","l","a","n","c","a">>, country |-> <<"M","o","r","o","c","c","o">>,
        lat |-> 34, lng |-> -8,  population |-> 4370000],
       [city |-> <<"F","e","s">>,        city_ascii |-> <<"F","e","s">>,        country |-> <<"M","o","r","o","c","c","o">>,
        lat |-> 34, lng |-> -5,  population |-> 1112072],
       [city |-> <<"R","a","b","a","t">>,      city_ascii |-> <<"R","a","b","a","t">>,      country |-> <<"M","o","r","o","c","c","o">>,
        lat |-> 34, lng |-> -7,  population |-> 572717],
       [city |-> <<"T","e","m","a","r","a">>,     city_ascii |-> <<"T","e","m","a","r","a">>,     country |-> <<"M","o","r","o","c","c","o">>,
        lat |-> 34, lng |-> -7,  population |-> 313510] >>

\* the row at which reading the CSV raises, when the file is corrupt
BadRow == 4

\* data/processed/cleaned_dataset.json
cleaned_dataset ==
    << [question |-> <<"B","e","a","c","h","e","s"," ","i","n"," ","R","a","b","a","t","?">>,     assistant |-> <<"A","1">>, city |-> <<"R","a","b","a","t">>,
        intent |-> <<"a","s","k","_","b","e","a","c","h","e","s">>],
       [question |-> <<"w","e","a","t","h","e","r"," ","i","n"," ","R","a","b","a","t">>,      assistant |-> <<"A","2">>, city |-> <<"R","a","b","a","t">>,
        intent |-> <<"a","s","k","_","w","e","a","t","h","e","r">>],
       [question |-> <<"T","e","l","l"," ","m","e"," ","a","b","o","u","t"," ","M","o","r","o","c","c","o">>, assistant |-> <<"A","3">>, city |-> <<>>,
        intent |-> <<"g","e","n","e","r","a","l","_","m","o","r","o","c","c","o">>],
       [question |-> <<"B","e","a","c","h","e","s"," ","i","n"," ","M","o","r","o","c","c","o">>,    assistant |-> <<"A","4">>, city |-> <<>>,
        intent |-> <<"g","e","n","e","r","a","l","_","m","o","r","o","c","c","o">>],
       [question |-> <<"T","e","l","l"," ","m","e"," ","a","b","o","u","t"," ","P","a","r","i","s">>,   assistant |-> <<"A","5">>, city |-> <<>>,
        intent |-> <<"i","r","r","e","l","e","v","a","n","t","_","q","u","e","s","t","i","o","n">>] >>

\* data/processed/edge_cases_cleaned.json
edge_cases_cleaned ==
    << [question |-> <<"h","e","l","l","o">>,          assistant |-> <<"A","6">>, city |-> <<>>,
        intent |-> <<"g","r","e","e","t","i","n","g">>],
       [question |-> <<"H","e","l","l","o","!">>,         assistant |-> <<"A","7">>, city |-> <<>>,
        intent |-> <<"G","r","e","e","t","i","n","g">>],
       [question |-> <<"t","e","l","l"," ","m","e"," ","a"," ","j","o","k","e">>, assistant |-> <<"A","8">>, city |-> <<>>,
        intent |-> <<"j","o","k","e","_","o","r","_","t","r","o","l","l">>] >>

\* the iteration order of a Python set of strings depends on the process's hash seed:
\* seed 0 enumerates in the written order, seed 1 in the opposite order
SetOrder(seed, written) ==
    IF seed = 0 THEN written
    ELSE [i \in 1..Len(written) |-> written[Len(written) + 1 - i]] \o <<>>

\* a population text that float() reads as infinity ('inf', '1e999'): int() of it
\* raises OverflowError, which is neither ValueError nor TypeError
Overflows(p) == p = -2

\* int(float(population or 0)), 0 when that raises
ParsePopulation(p) == IF p < 0 THEN 0 ELSE p

(***************************************************************************)
(* Loading: data_loader.py and CityDetector._load_global_cities            *)
(***************************************************************************)
\* load_all_data(): the corpus lists; raised when a file is missing or is not JSON
\* (open() and json.load() raise)
load_all_data(d) ==
    CASE d.corpus = "ok" ->
            [raised |-> FALSE, cleaned_dataset |-> cleaned_dataset,
             edge_cases_cleaned |-> edge_cases_cleaned]
      [] d.corpus = "empty" ->
            [raised |-> FALSE, cleaned_dataset |-> <<>>, edge_cases_cleaned |-> <<>>]
      [] OTHER ->
            [raised |-> TRUE, cleaned_dataset |-> <<>>, edge_cases_cleaned |-> <<>>]

\* the loop of _load_global_cities over the first n rows: the dict (keys in
\* insertion order), the countries seen (first occurrences, in order) and whether
\* an exception left the loop.  Only ValueError and TypeError of the population are
\* caught inside the loop.
RECURSIVE LoadRows(_, _)
LoadRows(rows, n) ==
    LET Lowered(s) == [i \in 1..Len(s) |-> LowerChar(s[i])] \o <<>>
        \* countries.add(country_name.lower().strip())
        Countries(countries, country_name) ==
            IF country_name # <<>> /\ \A k \in 1..Len(countries) : countries[k] # country_name
            THEN Append(countries, country_name)
            ELSE countries
        \* a new key is added; a key seen before keeps the row of the larger population
        Put(cs, entry, at) ==
            IF at = {} THEN Append(cs, entry)
            ELSE IF \E k \in at : ParsePopulation(entry.data.population)
                                     > ParsePopulation(cs[k].data.population)
                 THEN [k \in 1..Len(cs) |-> IF k \in at THEN entry ELSE cs[k]] \o <<>>
                 ELSE cs
        Keep(cs, entry) == Put(cs, entry, {k \in 1..Len(cs) : cs[k].key = entry.key})
        Cities(cs, city_name, row) ==
            IF city_name = <<>> THEN cs
            ELSE Keep(cs, [key |-> Lowered(city_name), data |-> [row EXCEPT !.city = city_name]])
        Row(prev, row) ==
            IF prev.raised THEN prev
            ELSE IF Strip(row.city) # <<>> /\ Overflows(row.population)
            THEN [prev EXCEPT !.raised = TRUE]
            ELSE [cities |-> Cities(prev.cities, Strip(row.city), row),
                  countries |-> Countries(prev.countries, Lowered(Strip(row.country))),
                  raised |-> FALSE]
    IN  IF n = 0 THEN [cities |-> <<>>, countries |-> <<>>, raised |-> FALSE]
        ELSE Row(LoadRows(rows, n - 1), rows[n])

\* the try block of _load_global_cities on a file of these rows: an exception is
\* caught, the dict read so far is returned and _extracted_countries stays unset
ReadRows(rows) ==
    LET Caught(r) ==
            [cities |-> r.cities, countries |-> IF r.raised THEN <<>> ELSE r.countries]
    IN  Caught(LoadRows(rows, Len(rows)))

\* CityDetector._load_global_cities and the getattr() that follows it in __init__:
\* a missing file returns the empty dict, an exception while reading is caught and
\* returns the rows read so far; in both cases _extracted_countries is never
\* assigned and countries is the default set()
_load_global_cities(d) ==
    CASE d.csv = "missing" -> [cities |-> <<>>, countries |-> <<>>]
      [] d.csv = "corrupt" ->
            [cities |-> LoadRows(worldcities_clean, BadRow - 1).cities,
             countries |-> <<>>]
      [] OTHER -> ReadRows(worldcities_clean)

\* the stop words of sklearn's 'english' list among the words of the model
StopWords == {<<"a">>, <<"a","b","o","u","t">>, <<"a","n","d">>, <<"b","e","t","w","e","e","n">>, <<"f","r","o","m">>, <<"h","o","w">>, <<"i","n">>, <<"i","s">>,
              <<"i","t">>, <<"m","e">>, <<"t","h","e">>, <<"t","o">>, <<"w","h","a","t">>}

\* TfidfVectorizer's analyzer on a normalised text: the words of two or more
\* characters that are no stop words, in order (the bigrams are the adjacent pairs)
Terms(text) ==
    SelectSeq(Split(text), LAMBDA w : Len(w) >= 2 /\ w \notin StopWords)

\* an entry of self.qa_list with its normalised fields
Entry(e) ==
    [question |-> e.question, assistant |-> e.assistant, city |-> e.city,
     intent |-> e.intent,
     norm_question |-> normalize_text(e.question),
     norm_city |-> normalize_text(e.city),
     norm_intent |-> [i \in 1..Len(e.intent) |-> LowerChar(e.intent[i])] \o <<>>]

\* Retriever.__init__: <<engine>>, or <<>> when the constructor raises
Retriever(files) ==
    LET Build(qa_list, det) ==
            << [qa_list |-> qa_list,
                global_cities |-> det.cities,
                countries |-> SetOrder(files.hash_seed, det.countries),
                moroccan_cities |-> SetOrder(files.hash_seed, moroccan_cities),
                moroccan_city_misspellings |-> moroccan_city_misspellings,
                intent_keywords |-> intent_keywords,
                cities |-> cities,
                q_vectors |-> [i \in 1..Len(qa_list) |->
                                  Terms(qa_list[i].norm_question)] \o <<>>] >>
        \* load_all_data raises; self.qa_list is empty: fit_transform raises
        Index(all_data, qa, det) ==
            IF all_data.raised \/ qa = <<>> THEN <<>>
            ELSE Build([i \in 1..Len(qa) |-> Entry(qa[i])] \o <<>>, det)
    IN  Index(load_all_data(files),
              load_all_data(files).cleaned_dataset \o load_all_data(files).edge_cases_cleaned,
              _load_global_cities(files))

(***************************************************************************)
(* CityDetector                                                            *)
(***************************************************************************)
\* the first index of seq that satisfies Test, 0 when none does: a for loop that
\* returns at its first hit
FirstIndex(seq, Test(_)) ==
    LET hits == {i \in 1..Len(seq) : Test(seq[i])}
    IN  IF hits = {} THEN 0 ELSE CHOOSE i \in hits : \A j \in hits : i <= j

\* difflib.get_close_matches(word, possibilities, n=1, cutoff=c100/100): the best
\* match, "" when the list is empty.  Ties of the ratio go to the greater string.
get_close_matches(word, possibilities, c100) ==
    LET Better(r, i, j) ==
            \/ RatLess(r[j], r[i])
            \/ ~RatLess(r[i], r[j]) /\ ~StrLess(possibilities[i], possibilities[j])
        Best(r, ok) ==
            IF ok = {} THEN <<>>
            ELSE possibilities[CHOOSE i \in ok : \A j \in ok : Better(r, i, j)]
        Close(r) == Best(r, {i \in 1..Len(r) : RatGE(r[i], c100, 100)})
    IN  Close([i \in 1..Len(possibilities) |-> Ratio(possibilities[i], word)] \o <<>>)

\* CityDetector.detect_moroccan_city
detect_moroccan_city(eng, user_input) ==
    LET \* the first word of four characters or more that has a close match
        Fuzzy(matches) ==
            IF \A k \in 1..Len(matches) : matches[k] = <<>> THEN <<>>
            ELSE matches[FirstIndex(matches, LAMBDA m : m # <<>>)]
        Search(misspelt, exact, matches) ==
            IF misspelt # 0 THEN eng.moroccan_city_misspellings[misspelt][2]
            ELSE IF exact # 0 THEN eng.moroccan_cities[exact]
            ELSE Fuzzy(matches)
    IN  Search(FirstIndex(eng.moroccan_city_misspellings,
                          LAMBDA m : WordSearch(m[1], _normalize_text(user_input))),
               FirstIndex(eng.moroccan_cities,
                          LAMBDA c : WordSearch(c, _normalize_text(user_input))),
               \* get_close_matches(word, self.moroccan_cities, n=1, cutoff=0.75)
               [k \in 1..Len(Split(_normalize_text(user_input))) |->
                   IF Len(Split(_normalize_text(user_input))[k]) >= 4
                   THEN get_close_matches(Split(_normalize_text(user_input))[k],
                                          eng.moroccan_cities, 75)
                   ELSE <<>>] \o <<>>)

\* gc[key] of the gazetteer dict: the index of the entry, 0 for a missing key
Lookup(gc, key) == FirstIndex(gc, LAMBDA e : e.key = key)

\* CityDetector._get_population
_get_population(city_data) == ParsePopulation(city_data.population)

\* CityDetector.detect_global_city: the index of the record in the gazetteer, 0 for None
detect_global_city(eng, user_input) ==
    LET gc == eng.global_cities
        Large(at) == IF at # 0 /\ _get_population(gc[at].data) >= 50000 THEN at ELSE 0
        Candidate(word_clean) ==
            IF Len(word_clean) >= 4 THEN Large(Lookup(gc, word_clean)) ELSE 0
        \* candidates.sort(key=population, reverse=True) is stable: the first of the largest
        Best(candidates) ==
            IF candidates = <<>> THEN 0
            ELSE candidates[FirstIndex(candidates, LAMBDA a : \A k \in 1..Len(candidates) :
                     _get_population(gc[candidates[k]].data) <= _get_population(gc[a].data))]
        Candidates(original_words) ==
            SelectSeq([k \in 1..Len(original_words) |->
                          Candidate(_normalize_text(original_words[k]))], LAMBDA a : a # 0)
    IN  Best(Candidates(Split(user_input)))

\* a detect_city that runs both detectors and returns what each found
detect_city_both(eng, user_input) ==
    <<detect_moroccan_city(eng, user_input), detect_global_city(eng, user_input),
      <<"detect_moroccan_city", "detect_global_city">>>>

\* CityDetector.detect_city: <<moroccan city or "", gazetteer index or 0>>, and as a
\* third component the detectors it called, in order
detect_city(eng, user_input) ==
    LET Or(moroccan, global_city) ==
            IF moroccan # <<>> THEN <<moroccan, 0, <<"detect_moroccan_city">>>>
            ELSE <<moroccan, global_city, <<"detect_moroccan_city", "detect_global_city">>>>
    IN  Or(detect_moroccan_city(eng, user_input), detect_global_city(eng, user_input))

\* CityDetector.is_morocco_mentioned
is_morocco_mentioned(user_input) ==
    WordSearch(<<"m","o","r","o","c","c","o">>, [i \in 1..Len(user_input) |-> LowerChar(user_input[i])] \o <<>>)

\* CityDetector.detect_country: the country, "" for None
detect_country(eng, user_input) ==
    LET Prefer(detected_countries, non_morocco) ==
            IF detected_countries = <<>> THEN <<>>
            ELSE IF non_morocco # <<>> THEN non_morocco[1]
            ELSE detected_countries[1]
        Among(detected_countries) ==
            Prefer(detected_countries, SelectSeq(detected_countries, LAMBDA c : c # <<"m","o","r","o","c","c","o">>))
        Search(query) == Among(SelectSeq(eng.countries, LAMBDA c : WordSearch(c, query)))
    IN  Search(_normalize_text(user_input))

(***************************************************************************)
(* Retriever: intent detection                                             *)
(***************************************************************************)
\* Retriever._fuzzy_similarity
_fuzzy_similarity(a, b) == Ratio(a, b)

\* the test of one keyword of _detect_intent against a query and its lemmas: the
\* joke_or_troll keywords are searched as substrings, the others as whole words
KeywordHit(kw_norm, q, q_lem, troll) ==
    LET Found(kw_lem, ratio) ==
            IF troll
            THEN \/ Contains(q, kw_norm)
                 \/ Contains(q_lem, kw_lem)
                 \/ RatGT(ratio, 80, 100)
            ELSE \/ WordSearch(kw_norm, q)
                 \/ WordSearch(kw_lem, q_lem)
                 \/ RatGT(ratio, 75, 100)
    IN  Found(lemmatize_text(kw_norm), _fuzzy_similarity(q, kw_norm))

\* the keyword loop of _detect_intent over every category: whether some keyword of
\* the category hits the query
KeywordHits(eng, query, ordinary) ==
    [r \in 1..Len(eng.intent_keywords) |->
        \E k \in 1..Len(eng.intent_keywords[r].keywords) :
            KeywordHit(normalize_text(eng.intent_keywords[r].keywords[k]),
                       query, lemmatize_text(query),
                       ~ordinary /\ eng.intent_keywords[r].intent = <<"j","o","k","e","_","o","r","_","t","r","o","l","l">>)] \o <<>>

\* the spelled-out query of _detect_intent
Expanded(query) ==
    Replace(Replace(Replace(query, <<" ","2"," ">>, <<" ","t","o"," ">>), <<" ","n"," ">>, <<" ","i","n"," ">>), <<" ","c","n"," ">>, <<" ","c","a","n"," ">>)

\* a _detect_intent that returns the first category of the dict with a hit
_detect_intent_declared(eng, user_input) ==
    LET Other(first) == IF first # 0 THEN eng.intent_keywords[first].intent ELSE <<>>
        Decide(hits, hits_expanded) ==
            Other(FirstIndex([r \in 1..Len(hits) |-> r],
                             LAMBDA r : hits[r] \/ hits_expanded[r]))
    IN  Decide(KeywordHits(eng, normalize_text(user_input), FALSE),
               KeywordHits(eng, Expanded(normalize_text(user_input)), TRUE))

\* Retriever._detect_intent: the category, "" for None
_detect_intent(eng, user_input) ==
    LET \* self.intent_keywords.get(name, []): no keywords for a missing category
        Listed(hits, at) == at # 0 /\ hits[at]
        Priority(hits, name) ==
            Listed(hits, FirstIndex(eng.intent_keywords, LAMBDA r : r.intent = name))
        Other(first) == IF first # 0 THEN eng.intent_keywords[first].intent ELSE <<>>
        \* the other categories in the order of the dict, on the query or its
        \* spelled-out form
        Others(hits, hits_expanded) ==
            Other(FirstIndex([r \in 1..Len(hits) |-> r], LAMBDA r :
                      /\ eng.intent_keywords[r].intent
                            \notin {<<"j","o","k","e","_","o","r","_","t","r","o","l","l">>, <<"a","s","k","_","w","e","a","t","h","e","r">>, <<"a","s","k","_","d","i","s","t","a","n","c","e">>}
                      /\ hits[r] \/ hits_expanded[r]))
        Decide(hits, hits_expanded) ==
            IF Priority(hits, <<"j","o","k","e","_","o","r","_","t","r","o","l","l">>) THEN <<"j","o","k","e","_","o","r","_","t","r","o","l","l">>
            ELSE IF Priority(hits, <<"a","s","k","_","d","i","s","t","a","n","c","e">>) THEN <<"a","s","k","_","d","i","s","t","a","n","c","e">>
            ELSE IF Priority(hits, <<"a","s","k","_","w","e","a","t","h","e","r">>) THEN <<"a","s","k","_","w","e","a","t","h","e","r">>
            ELSE Others(hits, hits_expanded)
    IN  Decide(KeywordHits(eng, normalize_text(user_input), FALSE),
               KeywordHits(eng, Expanded(normalize_text(user_input)), TRUE))

(***************************************************************************)
(* Retriever: places and distances                                         *)
(***************************************************************************)
\* CITY_MATCH_THRESHOLD, in hundredths
CITY_MATCH_THRESHOLD == 80

\* None as a resolved place
NoPlace == [name |-> <<>>, lat |-> 0, lng |-> 0, country |-> <<>>, score |-> <<0, 1>>]

\* similarity of find_city_coordinates
similarity(a, b) == IF a = <<>> \/ b = <<>> THEN <<0, 1>> ELSE Ratio(a, b)

\* sim1 and sim2 of find_city_coordinates for every entry of the gazetteer
Similarities(gc, query) ==
    [k \in 1..Len(gc) |->
        <<similarity(query, gc[k].key),
          similarity(query, normalize_text(IF gc[k].data.city_ascii # <<>>
                                           THEN gc[k].data.city_ascii
                                           ELSE gc[k].data.city))>>] \o <<>>

\* a find_city_coordinates that returns its closest key from a similarity of 0.5 on
find_city_coordinates_any(eng, city_name) ==
    LET gc == eng.global_cities
        Found(k, s) == [name |-> gc[k].data.city, lat |-> gc[k].data.lat, lng |-> gc[k].data.lng,
                        country |-> gc[k].data.country, score |-> s]
        Closest(sims, passing) ==
            IF passing = {} THEN NoPlace
            ELSE Found(CHOOSE k \in passing : \A j \in passing : ~RatLess(sims[k][1], sims[j][1]),
                       sims[CHOOSE k \in passing :
                                \A j \in passing : ~RatLess(sims[k][1], sims[j][1])][1])
    IN  Closest(Similarities(eng.global_cities, normalize_text(city_name)),
                {k \in 1..Len(gc) :
                    RatGE(Similarities(eng.global_cities, normalize_text(city_name))[k][1],
                          50, 100)})

\* a find_city_coordinates that takes the closest key, whatever its population
find_city_coordinates_closest(eng, city_name) ==
    LET gc == eng.global_cities
        Found(k, s) == [name |-> gc[k].data.city, lat |-> gc[k].data.lat, lng |-> gc[k].data.lng,
                        country |-> gc[k].data.country, score |-> s]
        Closest(sims, passing) ==
            IF passing = {} THEN NoPlace
            ELSE Found(CHOOSE k \in passing : \A j \in passing : ~RatLess(sims[k][1], sims[j][1]),
                       sims[CHOOSE k \in passing :
                                \A j \in passing : ~RatLess(sims[k][1], sims[j][1])][1])
        Search(query, at, sims) ==
            IF at # 0 THEN Found(at, <<1, 1>>)
            ELSE Closest(sims, {k \in 1..Len(gc) :
                                   RatGE(sims[k][1],
                                         IF Len(query) <= 5 THEN 90 ELSE CITY_MATCH_THRESHOLD, 100)})
    IN  Search(normalize_text(city_name), Lookup(eng.global_cities, normalize_text(city_name)),
               Similarities(eng.global_cities, normalize_text(city_name)))

\* Retriever.find_city_coordinates: (name, lat, lng, country, score), NoPlace for None
find_city_coordinates(eng, city_name) ==
    LET gc == eng.global_cities
        Name(v) == IF v.city # <<>> THEN v.city
                   ELSE IF v.city_ascii # <<>> THEN v.city_ascii ELSE city_name
        \* float(lat), float(lng): 999 stands for a text that float() rejects
        Floats(v) == v.lat # 999 /\ v.lng # 999
        Found(v, s) ==
            IF Floats(v)
            THEN [name |-> Name(v), lat |-> v.lat, lng |-> v.lng, country |-> v.country,
                  score |-> s]
            ELSE NoPlace
        Larger(x, y) == IF RatLess(x, y) THEN y ELSE x
        \* min(1.0, score + 0.15)
        Bonus(score) ==
            IF 20 * score[1] + 3 * score[2] >= 20 * score[2] THEN <<1, 1>>
            ELSE <<20 * score[1] + 3 * score[2], 20 * score[2]>>
        Lowered(s) == [i \in 1..Len(s) |-> LowerChar(s[i])] \o <<>>
        Boosted(score, v, is_moroccan_query) ==
            IF is_moroccan_query /\ Lowered(Strip(v.country)) = <<"m","o","r","o","c","c","o">> THEN Bonus(score)
            ELSE score
        Pop(k) == ParsePopulation(gc[k].data.population)
        First(best) == CHOOSE k \in best : \A j \in best : k <= j
        \* sorted(pool, key=(score, population), reverse=True)[0]: the first of the best
        pick_best(pool, scores) ==
            First({k \in pool : \A j \in pool :
                      \/ RatLess(scores[j], scores[k])
                      \/ ~RatLess(scores[k], scores[j]) /\ Pop(j) <= Pop(k)})
        Chosen(scores, chosen) == Found(gc[chosen].data, scores[chosen])
        Among(scores, candidates) ==
            IF candidates = {} THEN NoPlace
            ELSE IF \E k \in candidates : Pop(k) >= 50000
            THEN Chosen(scores, pick_best({k \in candidates : Pop(k) >= 50000}, scores))
            ELSE Chosen(scores, pick_best(candidates, scores))
        Rank(scores, dynamic_threshold) ==
            Among(scores, {k \in 1..Len(gc) : RatGE(scores[k], dynamic_threshold, 100)})
        Fuzzy(query, is_moroccan_query, sims) ==
            Rank([k \in 1..Len(gc) |->
                     Boosted(Larger(sims[k][1], sims[k][2]), gc[k].data, is_moroccan_query)]
                    \o <<>>,
                 IF Len(query) <= 5 THEN 90 ELSE CITY_MATCH_THRESHOLD)
        Search(query, at, is_moroccan_query, sims) ==
            IF city_name = <<>> THEN NoPlace
            ELSE IF at # 0 THEN Found(gc[at].data, <<1, 1>>)
            ELSE Fuzzy(query, is_moroccan_query, sims)
    IN  Search(normalize_text(city_name),
               Lookup(eng.global_cities, normalize_text(city_name)),
               detect_moroccan_city(eng, city_name) # <<>>,
               Similarities(eng.global_cities, normalize_text(city_name)))

\* a distance measured from the first point alone
haversine_distance_one_sided(lat1, lon1, lat2, lon2) == lat1 * lat1 + lon1 * lon1

\* Retriever.haversine_distance on whole degrees: the great-circle distance is
\* stood for by the squared chord of the two points on the degree grid
haversine_distance(lat1, lon1, lat2, lon2) ==
    (lat2 - lat1) * (lat2 - lat1) + (lon2 - lon1) * (lon2 - lon1)

\* a reply text: the message and the values put into it
Msg(kind, x, y, n, prefix) ==
    [kind |-> kind, x |-> x, y |-> y, n |-> n, prefix |-> prefix, w |-> <<>>]

\* a get_city_distance that measures whatever the two lookups gave
Between_unchecked(eng, found) ==
    Msg("distance", found[1].name, found[2].name,
        haversine_distance(found[1].lat, found[1].lng, found[2].lat, found[2].lng), FALSE)

\* get_city_distance on the two resolved places
Between(eng, found) ==
    LET Lowered(s) == [i \in 1..Len(s) |-> LowerChar(s[i])] \o <<>>
        Listed(name) == \E k \in 1..Len(eng.moroccan_cities) : eng.moroccan_cities[k] = name
        IsMorocco(p) ==
            Lowered(Strip(p.country)) = <<"m","o","r","o","c","c","o">> \/ Listed(normalize_text(p.name))
    IN  IF found[1] = NoPlace \/ found[2] = NoPlace
        THEN Msg("could_not_identify", <<>>, <<>>, 0, FALSE)
        ELSE IF ~RatGE(found[1].score, CITY_MATCH_THRESHOLD, 100)
        THEN Msg("did_you_mean", found[1].name, found[1].country, 0, FALSE)
        ELSE IF ~RatGE(found[2].score, CITY_MATCH_THRESHOLD, 100)
        THEN Msg("did_you_mean", found[2].name, found[2].country, 0, FALSE)
        ELSE Msg("distance", found[1].name, found[2].name,
                 haversine_distance(found[1].lat, found[1].lng, found[2].lat, found[2].lng),
                 \E k \in 1..2 : ~IsMorocco(found[k]))

\* Retriever.get_city_distance
get_city_distance(eng, city_a, city_b) ==
    IF city_a = <<>> \/ city_b = <<>>
    THEN Msg("two_valid_names", <<>>, <<>>, 0, FALSE)
    ELSE Between(eng, [i \in 1..2 |->
                          find_city_coordinates(eng, <<city_a, city_b>>[i])] \o <<>>)

(***************************************************************************)
(* Retriever._extract_cities_from_text                                     *)
(***************************************************************************)
\* str.lower()
Lower(s) == [i \in 1..Len(s) |-> LowerChar(s[i])] \o <<>>

\* str.strip(' "\'')
StripQuotes(s) ==
    LET Trim(ink) ==
            IF ink = {} THEN <<>>
            ELSE SubSeq(s, CHOOSE i \in ink : \A j \in ink : i <= j,
                           CHOOSE i \in ink : \A j \in ink : i >= j)
    IN  Trim({i \in 1..Len(s) : s[i] \notin {" ", "'"}})

\* re.search(first + r'\s+(.+?)\s+' + second + r'\s+(.+)', s): the two groups after
\* strip(' "\''), <<>> when there is no match.  The leftmost match; the \s+ after
\* first is greedy, group 1 is as short as the rest allows, group 2 runs to the end.
SearchPair(s, first, second) ==
    LET n == Len(s)
        Least(set) == CHOOSE x \in set : \A y \in set : x <= y
        Greatest(set) == CHOOSE x \in set : \A y \in set : y <= x
        \* positions of second with a space before it, a space after it and more text
        seconds == {k \in 2..(n - Len(second) - 1) :
                       /\ SubSeq(s, k, k + Len(second) - 1) = second
                       /\ IsSpace(s[k - 1])
                       /\ IsSpace(s[k + Len(second)])}
        \* the end of the shortest group 1 that starts at p and stops before second at k
        LastInk(p, ink) == IF ink = {} THEN p ELSE Greatest(ink)
        EndFor(p, k) == LastInk(p, {j \in p..(k - 1) : ~IsSpace(s[j])})
        Ends(p) == {EndFor(p, k) : k \in {x \in seconds : x >= p + 2}}
        \* the starts of group 1 after first at i: every split of the run of spaces
        Spaces(i) == {g \in 1..(n - i) : \A j \in 1..g : IsSpace(s[i + Len(first) - 1 + j])}
        Starts(i) == {i + Len(first) + g : g \in {x \in Spaces(i) : Ends(i + Len(first) + x) # {}}}
        Groups(p, e, k) ==
            <<StripQuotes(SubSeq(s, p, e)), StripQuotes(SubSeq(s, k + Len(second) + 1, n))>>
        Group1(p, e) == Groups(p, e, CHOOSE x \in seconds : x >= p + 2 /\ EndFor(p, x) = e)
        After(p) == Group1(p, Least(Ends(p)))
        Match(firsts) == IF firsts = {} THEN <<>> ELSE After(Greatest(Starts(Least(firsts))))
    IN  Match({i \in 1..(n - Len(first)) :
                  /\ SubSeq(s, i, i + Len(first) - 1) = first
                  /\ Starts(i) # {}})

\* re.findall(r"[\w\-]+", s): the maximal runs of word characters and hyphens
Tokens(s) ==
    LET In(i) == IsWordChar(s[i]) \/ s[i] = "-"
        EndOf(i) == CHOOSE e \in i..Len(s) :
                       /\ \A j \in i..e : In(j)
                       /\ (e = Len(s) \/ ~In(e + 1))
        Runs(from) == [k \in 1..Len(from) |-> SubSeq(s, from[k], EndOf(from[k]))] \o <<>>
    IN  Runs(SelectSeq([i \in 1..Len(s) |-> i], LAMBDA i : In(i) /\ (i = 1 \/ ~In(i - 1))))

\* common_words of _extract_cities_from_text
common_words ==
    {<<"w","h","a","t","s">>, <<"w","h","a","t">>, <<"h","o","w","s">>, <<"h","o","w">>, <<"t","h","e">>, <<"i","s">>, <<"a","r","e">>, <<"a","n","d">>, <<"o","r">>, <<"t","o">>,
     <<"f","r","o","m">>, <<"b","e","t","w","e","e","n">>, <<"d","i","s","t","a","n","c","e">>, <<"f","a","r">>, <<"a","w","a","y">>, <<"w","h","e","r","e">>, <<"w","h","i","c","h">>, <<"w","h","e","n">>,
     <<"c","a","n">>, <<"w","i","l","l">>, <<"d","o","e","s">>, <<"d","i","d">>, <<"d","o">>, <<"a","b","o","u","t">>, <<"f","o","r">>, <<"a","s">>, <<"w","i","t","h">>, <<"a","t">>,
     <<"i","n">>, <<"o","n">>, <<"b","y">>, <<"o","f">>, <<"a","n">>, <<"a">>, <<"k","m">>, <<"k","i","l","o","m","e","t","e","r","s">>, <<"m","i","l","e","s">>, <<"y","o","u">>,
     <<"m","e">>, <<"h","i","m">>, <<"h","e","r">>}

\* a found.append(c) that does not look at the names already in found
AddPlace_repeated(found, c) == IF c # NoPlace THEN Append(found, c) ELSE found

\* found.append(c) unless c is None or its normalised name is already in found
AddPlace(found, c) ==
    IF c # NoPlace /\ \A k \in 1..Len(found) :
                          normalize_text(found[k].name) # normalize_text(c.name)
    THEN Append(found, c)
    ELSE found

\* the n-gram scan: the spans (n, i) in the order of the two nested loops, from the
\* k-th on; st is <<found, used_spans, passed>>, passed being the spans given to
\* find_city_coordinates so far, each with whether its place was appended
RECURSIVE ScanSpans(_, _, _, _, _, _)
ScanSpans(eng, tokens, spans, k, max_cities, st) ==
    LET Phrase(n, i) == Join(SubSeq(tokens, i + 1, i + n))
        Skip(n, i, phrase) ==
            \/ <<i, i + n>> \in st[2]
            \/ Len(phrase) < 2
            \/ n = 1 /\ Lower(phrase) \in common_words
        \* for j in range(i, i + n): used_spans.add((j, j + 1))
        Mark(n, i, found) ==
            IF found = st[1] THEN <<st[1], st[2], Append(st[3], <<i, i + n, FALSE>>)>>
            ELSE <<found, st[2] \cup {<<j, j + 1>> : j \in i..(i + n - 1)},
                   Append(st[3], <<i, i + n, TRUE>>)>>
    IN  IF k > Len(spans) \/ Len(st[1]) >= max_cities THEN st
        ELSE ScanSpans(eng, tokens, spans, k + 1, max_cities,
                 IF Skip(spans[k][1], spans[k][2], Phrase(spans[k][1], spans[k][2]))
                 THEN st
                 ELSE Mark(spans[k][1], spans[k][2],
                           AddPlace(st[1], find_city_coordinates(eng,
                                               Phrase(spans[k][1], spans[k][2])))))

\* a for loop that resolves the names of seq ("" for an item that names nothing)
\* and appends their places to found until it holds max_cities places
RECURSIVE Collect(_, _, _, _, _)
Collect(eng, names, k, max_cities, found) ==
    IF k > Len(names) \/ Len(found) >= max_cities THEN found
    ELSE Collect(eng, names, k + 1, max_cities,
                 AddPlace(found, find_city_coordinates(eng, names[k])))

\* the body of _extract_cities_from_text on a text that is not empty, with the
\* locals of its n-gram stage: <<found, used_spans, passed>>.  The loops FIRST,
\* SECOND and THIRD resolve their names in turn and stop when found is full, which
\* is one loop over the names of the three; FOURTH scans the n-grams from what they
\* found
ExtractScan(eng, text, max_cities) ==
    LET \* FIRST: the Moroccan cities of self.cities that the text names
        Named(text_norm) ==
            [k \in 1..Len(eng.cities) |->
                IF WordSearch(normalize_text(eng.cities[k]), text_norm)
                THEN eng.cities[k] ELSE <<>>]
        \* SECOND: the misspellings
        Misspelt(text_norm) ==
            [k \in 1..Len(eng.moroccan_city_misspellings) |->
                IF WordSearch(eng.moroccan_city_misspellings[k][1], text_norm)
                THEN eng.moroccan_city_misspellings[k][2] ELSE <<>>]
        \* THIRD: between X and Y, else from X to Y
        Pair(pairs) == IF pairs[1] # <<>> THEN pairs[1] ELSE pairs[2]
        \* FOURTH: n-grams of the tokens, the longer first, from min(4, len(tokens))
        SpansOf(tokens, n) ==
            IF n > Len(tokens) THEN <<>>
            ELSE [i \in 1..(Len(tokens) - n + 1) |-> <<n, i - 1>>]
        Spans(tokens) ==
            SpansOf(tokens, 4) \o SpansOf(tokens, 3) \o SpansOf(tokens, 2) \o SpansOf(tokens, 1)
    IN  ScanSpans(eng, Tokens(Replace(text, <<"'">>, <<" ">>)),
                  Spans(Tokens(Replace(text, <<"'">>, <<" ">>))), 1, max_cities,
                  <<Collect(eng,
                            Named(normalize_text(text)) \o Misspelt(normalize_text(text))
                                \o Pair([p \in 1..2 |->
                                           SearchPair(Lower(text),
                                                      <<<<"b","e","t","w","e","e","n">>, <<"f","r","o","m">>>>[p],
                                                      <<<<"a","n","d">>, <<"t","o">>>>[p])]),
                            1, max_cities, <<>>),
                    {}, <<>>>>)

\* Retriever._extract_cities_from_text: the places found, [] for an empty text
_extract_cities_from_text(eng, text, max_cities) ==
    IF text = <<>> THEN <<>> ELSE ExtractScan(eng, text, max_cities)[1]

(***************************************************************************)
(* The weather provider and get_weather                                    *)
(***************************************************************************)
\* what the GET to the weather provider can end in: requests raises, a status other
\* than 200, a body that is no JSON, a JSON object without 'main' or 'weather', one
\* with both but none of the fields inside, the complete payload
WeatherOutcomes == {"timeout", "status", "not_json", "no_main", "no_fields", "full"}

\* a get_weather without its try/except: the failure of the request leaves it
get_weather_unguarded(city, provider) ==
    [raised |-> city # <<>> /\ provider = "timeout", requests |-> IF city = <<>> THEN 0 ELSE 1,
     value |-> <<>>]

\* retriever.get_weather: raised says that an exception left the function, requests
\* counts the GETs sent; value is <<>> for None, else <<the dict>> with the fields as
\* an f-string prints them
get_weather(city, provider) ==
    IF city = <<>> THEN [raised |-> FALSE, requests |-> 0, value |-> <<>>]
    ELSE [raised |-> FALSE, requests |-> 1,
          value |->
            CASE provider = "full" ->
                    << [temperature |-> <<"2","1">>, humidity |-> <<"6","0">>,
                        condition |-> <<"c","l","e","a","r"," ","s","k","y">>, wind |-> <<"3">>] >>
              [] provider = "no_fields" ->
                    << [temperature |-> <<"N","o","n","e">>, humidity |-> <<"N","o","n","e">>,
                        condition |-> <<>>, wind |-> <<"N","o","n","e">>] >>
              [] OTHER -> <<>>]

(***************************************************************************)
(* Replies                                                                 *)
(***************************************************************************)
\* a score n/d in millionths
Score(n, d) == (n * 1000000) \div d

\* one (text, score) pair of the list get_answer returns
Item(text, score) == [text |-> text, score |-> score]

\* str.upper() on one character
UpperChar(c) ==
    IF c \in AsciiLower
    THEN LET i == CHOOSE k \in 1..Len(CharSeq) : CharSeq[k] = c IN CharSeq[i - 27]
    ELSE c

IsCased(c) == c \in AsciiLower \cup AsciiUpper \cup {"e_grave", "l_stroke"}

\* str.title()
Title(s) ==
    [i \in 1..Len(s) |->
        IF i = 1 \/ ~IsCased(s[i - 1]) THEN UpperChar(s[i]) ELSE LowerChar(s[i])] \o <<>>

\* str.capitalize()
Capitalize(s) ==
    [i \in 1..Len(s) |-> IF i = 1 THEN UpperChar(s[i]) ELSE LowerChar(s[i])] \o <<>>

\* WorldCityResponseFormatter.format_world_city_response: the facts put into the text
format_world_city_response(city_data) ==
    Msg("world_city", city_data.city, city_data.country,
        ParsePopulation(city_data.population), FALSE)

\* a weather part that asks the provider again after a lookup that gave nothing
WeatherReply_again(city_query, prefix, provider) ==
    [raised |-> FALSE,
     lookups |-> <<[city |-> city_query, requests |-> 1, result |-> "None"],
                   [city |-> city_query, requests |-> 1, result |-> "None"]>>,
     responses |-> <<[text |-> Msg("weather_retry", <<>>, <<>>, 0, FALSE),
                      score |-> 500000]>>]

\* the weather part of get_answer for the city to ask for: the reply and the
\* bookkeeping of the call
WeatherReply(city_query, prefix, provider) ==
    LET \* what the call of get_weather gave back: "raised", "None" or the dict
        Seen(weather) ==
            IF weather.raised THEN "raised"
            ELSE IF weather.value = <<>> THEN "None" ELSE "dict"
        Text(w) ==
            [Msg("weather", Title(city_query), Capitalize(w.condition), 0, prefix)
                EXCEPT !.w = <<w.temperature, w.humidity, w.wind>>]
        Responses(weather) ==
            IF weather.raised THEN <<>>
            ELSE IF weather.value = <<>>
            THEN <<Item(Msg("weather_retry", <<>>, <<>>, 0, FALSE), Score(1, 2))>>
            ELSE <<Item(Text(weather.value[1]), Score(1, 1))>>
        Reply(weather) ==
            [raised |-> weather.raised,
             lookups |-> <<[city |-> city_query, requests |-> weather.requests,
                            result |-> Seen(weather)]>>,
             responses |-> Responses(weather)]
    IN  Reply(get_weather(city_query, provider))

(***************************************************************************)
(* Retriever.get_answer: detection and routing                             *)
(***************************************************************************)
\* the detector outputs before detection has run
NotRun ==
    [ran |-> FALSE, moroccan_city |-> <<>>, global_city |-> 0, morocco_mentioned |-> FALSE,
     country_detected |-> <<>>, detected_intent |-> <<>>]

\* the detection of get_answer.  global_city is the index of the record in the
\* gazetteer.  (_extract_city is also called there; its result is never used.)
Detect(eng, user_input) ==
    LET Detected(city, morocco_mentioned, country_detected, detected_intent) ==
            [ran |-> TRUE, moroccan_city |-> city[1], global_city |-> city[2],
             morocco_mentioned |-> morocco_mentioned,
             country_detected |-> country_detected,
             detected_intent |-> detected_intent]
    IN  Detected(detect_city(eng, user_input), is_morocco_mentioned(user_input),
                 detect_country(eng, user_input), _detect_intent(eng, user_input))

\* a get_answer without the guard of lines 580-581
Enter_unguarded(eng, user_input) == [returned |-> FALSE, det |-> Detect(eng, user_input)]

\* the start of get_answer: the guard for an empty question, then the detection
Enter(eng, user_input) ==
    IF Strip(user_input) = <<>> THEN [returned |-> TRUE, det |-> NotRun]
    ELSE [returned |-> FALSE, det |-> Detect(eng, user_input)]

\* an if-chain that tests for a Moroccan city before it tests the intent
Route_city_first(d) ==
    IF d.moroccan_city # <<>> THEN "moroccan_city"
    ELSE IF d.detected_intent = <<"a","s","k","_","w","e","a","t","h","e","r">> THEN "weather"
    ELSE IF d.detected_intent = <<"a","s","k","_","d","i","s","t","a","n","c","e">> THEN "distance"
    ELSE IF d.global_city # 0 THEN "global_city"
    ELSE IF d.country_detected # <<>> /\ Lower(d.country_detected) # <<"m","o","r","o","c","c","o">>
         THEN "foreign_country"
    ELSE IF d.morocco_mentioned THEN "general_morocco"
    ELSE "generic"

\* the if-chain of get_answer: the branch that handles the question
Route(d) ==
    IF d.detected_intent = <<"a","s","k","_","w","e","a","t","h","e","r">> THEN "weather"
    ELSE IF d.detected_intent = <<"a","s","k","_","d","i","s","t","a","n","c","e">> THEN "distance"
    ELSE IF d.moroccan_city # <<>> THEN "moroccan_city"
    ELSE IF d.global_city # 0 THEN "global_city"
    ELSE IF d.country_detected # <<>> /\ Lower(d.country_detected) # <<"m","o","r","o","c","c","o">>
         THEN "foreign_country"
    ELSE IF d.morocco_mentioned THEN "general_morocco"
    ELSE "generic"

(***************************************************************************)
(* Retriever.get_answer: the distance branch                               *)
(***************************************************************************)
\* re.sub(re.escape(old), '', s, flags=re.I)
RECURSIVE RemoveAll(_, _)
RemoveAll(s, old) ==
    LET Cut(i) == SubSeq(s, 1, i - 1) \o RemoveAll(SubSeq(s, i + Len(old), Len(s)), old)
        First(at) ==
            IF at = {} \/ old = <<>> THEN s ELSE Cut(CHOOSE x \in at : \A y \in at : x <= y)
    IN  First({i \in 1..(Len(s) - Len(old) + 1) :
                  Lower(SubSeq(s, i, i + Len(old) - 1)) = Lower(old)})

\* the alternatives of the pattern between|and|to|from|,|;|\bvs\b, in order
Delimiters == <<<<"b","e","t","w","e","e","n">>, <<"a","n","d">>, <<"t","o">>, <<"f","r","o","m">>, <<",">>, <<";">>, <<"v","s">>>>

\* re.split(that pattern, s, flags=re.I)
RECURSIVE SplitDelimiters(_)
SplitDelimiters(s) ==
    LET MatchAt(i, k) ==
            /\ i + Len(Delimiters[k]) - 1 <= Len(s)
            /\ Lower(SubSeq(s, i, i + Len(Delimiters[k]) - 1)) = Delimiters[k]
            /\ (Delimiters[k] = <<"v","s">> =>
                    Boundary(s, i - 1) /\ Boundary(s, i + Len(Delimiters[k]) - 1))
        Cut(i, k) ==
            <<SubSeq(s, 1, i - 1)>> \o SplitDelimiters(SubSeq(s, i + Len(Delimiters[k]), Len(s)))
        CutAt(i) ==
            Cut(i, CHOOSE x \in 1..Len(Delimiters) :
                       MatchAt(i, x) /\ \A y \in 1..(x - 1) : ~MatchAt(i, y))
        First(at) == IF at = {} THEN <<s>> ELSE CutAt(CHOOSE x \in at : \A y \in at : x <= y)
    IN  First({i \in 1..Len(s) : \E k \in 1..Len(Delimiters) : MatchAt(i, k)})

\* candidates.append(c) for the parts that resolve, until there are two
RECURSIVE ResolveParts(_, _, _, _)
ResolveParts(eng, parts, k, candidates) ==
    LET Add(c) == IF c # NoPlace THEN Append(candidates, c) ELSE candidates
    IN  IF k > Len(parts) \/ Len(candidates) >= 2 THEN candidates
        ELSE ResolveParts(eng, parts, k + 1, Add(find_city_coordinates(eng, parts[k])))

\* a distance part that gives up after the first stage
DistancePair_first_stage(eng, text, found) ==
    [stages |-> <<"extract">>, pair |-> IF Len(found) >= 2 THEN found ELSE <<>>]

\* the distance part of get_answer after found = self._extract_cities_from_text(text,
\* max_cities=2): the stages it ran and the two places to measure, <<>> for none
DistancePair(eng, text, found) ==
    LET Stripped(parts) ==
            SelectSeq([p \in 1..Len(parts) |-> Strip(parts[p])] \o <<>>, LAMBDA p : p # <<>>)
        \* the last resort: the text split at the delimiters, the parts resolved
        LastResort(stages, candidates) ==
            [stages |-> Append(stages, "split"),
             pair |-> IF Len(candidates) >= 2 THEN candidates ELSE <<>>]
        \* one city found: the text without its name is searched for one more
        Pairing(more, candidates) ==
            IF Len(found) >= 2 THEN [stages |-> <<"extract">>, pair |-> found]
            ELSE IF Len(found) = 1 /\ more # <<>>
            THEN [stages |-> <<"extract", "strip">>, pair |-> <<found[1], more[1]>>]
            ELSE IF Len(found) = 1 THEN LastResort(<<"extract", "strip">>, candidates)
            ELSE LastResort(<<"extract">>, candidates)
    IN  Pairing(IF Len(found) = 1
                THEN _extract_cities_from_text(eng, Strip(RemoveAll(text, found[1].name)), 1)
                ELSE <<>>,
                ResolveParts(eng, Stripped(SplitDelimiters(text)), 1, <<>>))

\* the reply of the distance part for the places it settled on
DistanceText(eng, r) ==
    [stages |-> r.stages,
     responses |->
        IF Len(r.pair) >= 2
        THEN <<Item(get_city_distance(eng, r.pair[1].name, r.pair[2].name), Score(1, 1))>>
        ELSE <<Item(Msg("clarify_two_cities", <<>>, <<>>, 0, FALSE), Score(1, 2))>>]

\* the distance part of get_answer: the stages it ran and the reply
DistanceReply(eng, user_input) ==
    DistanceText(eng, DistancePair(eng, Strip(user_input),
                                   _extract_cities_from_text(eng, Strip(user_input), 2)))

(***************************************************************************)
(* Retriever.get_answer: the corpus branches                               *)
(***************************************************************************)
\* the TF-IDF cosine of the question and corpus question i, in hundredths: 0 when
\* they share no term, 100 when their terms are the same, else the value the
\* vectoriser computes, which the model leaves open (world.cosine)
Cosine(eng, user_norm, i, world) ==
    LET Of(mine, theirs) ==
            IF ~\E a \in 1..Len(mine) : \E b \in 1..Len(theirs) : mine[a] = theirs[b] THEN 0
            ELSE IF mine = theirs THEN 100
            ELSE world.cosine[i]
    IN  Of(Terms(user_norm), eng.q_vectors[i])

\* np.random.choice(seq)
Choice(seq, world) == seq[((world.pick - 1) % Len(seq)) + 1]

\* items.sort(key=score, reverse=True): stable
SortDesc(items) ==
    LET Rank(i) == Cardinality({j \in 1..Len(items) :
                       \/ items[j].score > items[i].score
                       \/ items[j].score = items[i].score /\ j < i}) + 1
    IN  [r \in 1..Len(items) |-> items[CHOOSE i \in 1..Len(items) : Rank(i) = r]] \o <<>>

\* seq[:k]
Take(seq, k) == SubSeq(seq, 1, IF Len(seq) < k THEN Len(seq) ELSE k)

Corpus(entry) == Msg("corpus", entry.assistant, <<>>, 0, FALSE)

\* (np.random.choice(self.generic_fallback), 0.0)
Fallback(world) ==
    <<Item(Msg("fallback", <<>>, <<>>, ((world.pick - 1) % NumFallbacks) + 1, FALSE),
           Score(0, 1))>>

\* a search for the exact match that finds nothing
ExactMatch_never(eng, user_norm) == 0

\* the first entry whose normalised question is the normalised query, 0 when none
ExactMatch(eng, user_norm) ==
    FirstIndex(eng.qa_list, LAMBDA e : e.norm_question = user_norm)

Immediate == {<<"g","r","e","e","t","i","n","g">>, <<"f","a","r","e","w","e","l","l">>, <<"j","o","k","e","_","o","r","_","t","r","o","l","l">>, <<"g","r","e","e","t","i","n","g","_","p","e","r","s","o","n","a","l">>}

Excluded == {<<"g","r","e","e","t","i","n","g">>, <<"f","a","r","e","w","e","l","l">>, <<"i","r","r","e","l","e","v","a","n","t","_","q","u","e","s","t","i","o","n">>, <<"r","u","d","e","_","o","r","_","a","g","g","r","e","s","s","i","v","e">>}

\* the scoring loop of the city and generic branches: 0.6 tfidf + 0.4 fuzzy, kept
\* when above 0.15
Blend(eng, user_norm, candidate_idxs, world) ==
    LET Mixed(entry, t, f) ==
            [keep |-> 6 * t * f[2] + 400 * f[1] > 150 * f[2],
             item |-> Item(Corpus(entry), ((6 * t * f[2] + 400 * f[1]) * 1000) \div f[2])]
        Items(kept) == [k \in 1..Len(kept) |-> kept[k].item] \o <<>>
    IN  SortDesc(Items(SelectSeq(
            [k \in 1..Len(candidate_idxs) |->
                Mixed(eng.qa_list[candidate_idxs[k]],
                      Cosine(eng, user_norm, candidate_idxs[k], world),
                      _fuzzy_similarity(user_norm,
                                        eng.qa_list[candidate_idxs[k]].norm_question))] \o <<>>,
            LAMBDA s : s.keep)))

\* the candidates of an intent, narrowed to those of wanted when there are any
Narrow(eng, candidate_idxs, Wanted(_)) ==
    LET Or(matches) == IF matches # <<>> THEN matches ELSE candidate_idxs
    IN  Or(SelectSeq(candidate_idxs, LAMBDA i : Wanted(eng.qa_list[i])))

\* the indices of the entries whose intent is not among the excluded ones
Open(eng) ==
    SelectSeq([i \in 1..Len(eng.qa_list) |-> i],
              LAMBDA i : eng.qa_list[i].norm_intent \notin Excluded)

\* a city answer scored over every open entry, whatever its city and intent
CityAnswer_any(eng, user_norm, city_name, top_k, world, detected_intent) ==
    IF Blend(eng, user_norm, Open(eng), world) = <<>> THEN Fallback(world)
    ELSE Take(Blend(eng, user_norm, Open(eng), world), top_k)

\* _answer_moroccan_city_query after the exact match failed and the intent is detected
CityAnswer(eng, user_norm, city_name, top_k, world, detected_intent) ==
    LET Best(candidate_idxs, scored_candidates) ==
            IF candidate_idxs = <<>> \/ scored_candidates = <<>> THEN Fallback(world)
            ELSE Take(scored_candidates, top_k)
        ByIntent(by_city) ==
            IF detected_intent # <<>>
            THEN Narrow(eng, by_city, LAMBDA e : e.norm_intent = detected_intent)
            ELSE by_city
        Candidates == ByIntent(Narrow(eng, Open(eng), LAMBDA e : e.norm_city = city_name))
        Immediately(candidates, scored_candidates) ==
            IF detected_intent \in Immediate /\ candidates # <<>>
            THEN <<Item(Corpus(Choice(candidates, world)), Score(1, 1))>>
            ELSE Best(Candidates, scored_candidates)
    IN  Immediately(SelectSeq(eng.qa_list, LAMBDA e : e.norm_intent = detected_intent),
                    Blend(eng, user_norm, Candidates, world))

\* Retriever._answer_moroccan_city_query
_answer_moroccan_city_query(eng, user_input, city_name, top_k, world) ==
    IF ExactMatch(eng, normalize_text(user_input)) # 0
    THEN <<Item(Corpus(eng.qa_list[ExactMatch(eng, normalize_text(user_input))]),
                Score(1, 1))>>
    ELSE CityAnswer(eng, normalize_text(user_input), city_name, top_k, world,
                    _detect_intent(eng, user_input))

\* a generic answer that returns as many items as the caller asked for
_answer_generic_query_top_k(eng, user_input, detected_intent, top_k, world) ==
    LET Candidates ==
            IF detected_intent # <<>>
            THEN Narrow(eng, Open(eng), LAMBDA e : e.norm_intent = detected_intent)
            ELSE Open(eng)
        Best(scored_candidates) ==
            IF scored_candidates = <<>> THEN Fallback(world)
            ELSE Take(scored_candidates, top_k)
    IN  Best(Blend(eng, normalize_text(user_input), Candidates, world))

\* Retriever._answer_generic_query
_answer_generic_query(eng, user_input, detected_intent, top_k, world) ==
    LET Best(candidate_idxs, scored_candidates) ==
            IF candidate_idxs = <<>> \/ scored_candidates = <<>> THEN Fallback(world)
            ELSE Take(scored_candidates, 1)
        Candidates ==
            IF detected_intent # <<>>
            THEN Narrow(eng, Open(eng), LAMBDA e : e.norm_intent = detected_intent)
            ELSE Open(eng)
        Immediately(candidates, scored_candidates) ==
            IF detected_intent \in Immediate /\ candidates # <<>>
            THEN <<Item(Corpus(Choice(candidates, world)), Score(1, 1))>>
            ELSE Best(Candidates, scored_candidates)
        Exact(exact, candidates, scored_candidates) ==
            IF exact # 0 THEN <<Item(Corpus(eng.qa_list[exact]), Score(1, 1))>>
            ELSE Immediately(candidates, scored_candidates)
    IN  Exact(ExactMatch(eng, normalize_text(user_input)),
              SelectSeq(eng.qa_list, LAMBDA e : e.norm_intent = detected_intent),
              Blend(eng, normalize_text(user_input), Candidates, world))

\* stop_words of _answer_general_morocco_query
stop_words == {<<"w","h","a","t">>, <<"a","r","e">>, <<"t","h","e">>, <<"a">>, <<"a","n">>, <<"i","s">>, <<"i","n">>, <<"o","f">>, <<"t","o">>, <<"f","o","r">>,
               <<"a","n","d">>, <<"o","r">>, <<"w","i","t","h">>, <<"o","n">>, <<"a","t">>, <<"b","y">>, <<"f","r","o","m">>, <<"m","a","i","n">>}

\* the keyword boost of _answer_general_morocco_query, in hundredths: 0.25 for a key
\* word of more than six characters that occurs in the candidate question, 0.15 for
\* a shorter one, 0.80 at most
Boost(user_norm, candidate_question) ==
    LET KeyWords(words) ==
            {words[k] : k \in {x \in 1..Len(words) :
                                   words[x] \notin stop_words /\ Len(words[x]) > 2}}
        Capped(boost) == IF boost > 80 THEN 80 ELSE boost
        Sum(hits) ==
            Capped(25 * Cardinality({w \in hits : Len(w) > 6})
                       + 15 * Cardinality({w \in hits : Len(w) <= 6}))
        Hits(key_words) == Sum({w \in key_words : Contains(candidate_question, w)})
    IN  Hits(KeyWords(Split(Lower(user_norm))))

\* the scoring loop of _answer_general_morocco_query: 0.85 tfidf + 0.15 fuzzy, times
\* 1 + boost, kept when above 0.1
GeneralBlend(eng, user_norm, candidate_idxs, tfidf_sims) ==
    LET Final(entry, f, final) ==
            [keep |-> final > 100000 * f[2], item |-> Item(Corpus(entry), final \div f[2])]
        Mixed(entry, t, f, boost) ==
            Final(entry, f, (85 * t * f[2] + 1500 * f[1]) * (100 + boost))
        Items(kept) == [k \in 1..Len(kept) |-> kept[k].item] \o <<>>
    IN  SortDesc(Items(SelectSeq(
            [k \in 1..Len(candidate_idxs) |->
                Mixed(eng.qa_list[candidate_idxs[k]], tfidf_sims[k],
                      _fuzzy_similarity(user_norm,
                                        eng.qa_list[candidate_idxs[k]].norm_question),
                      Boost(user_norm,
                            Lower(eng.qa_list[candidate_idxs[k]].norm_question)))] \o <<>>,
            LAMBDA s : s.keep)))

\* a general-Morocco answer that gives up when no candidate is above 0.1
GeneralAnswer_fallback(eng, user_norm, top_k, world, detected_intent) == Fallback(world)

\* _answer_general_morocco_query after the exact match failed and the intent is detected
GeneralAnswer(eng, user_norm, top_k, world, detected_intent) ==
    LET \* self.qa_list.index(e): the first entry equal to e
        Indexes(own) ==
            [k \in 1..Len(own) |->
                FirstIndex(eng.qa_list, LAMBDA e : e = eng.qa_list[own[k]])] \o <<>>
        candidate_idxs ==
            Indexes(SelectSeq([i \in 1..Len(eng.qa_list) |-> i], LAMBDA i :
                        eng.qa_list[i].norm_intent = <<"g","e","n","e","r","a","l","_","m","o","r","o","c","c","o">>))
        \* candidate_idxs[tfidf_sims.argmax()] and tfidf_sims.max(): the first of the largest
        BestTfidf(tfidf_sims, best) ==
            <<Item(Corpus(eng.qa_list[candidate_idxs[best]]), Score(tfidf_sims[best], 100))>>
        Best(tfidf_sims, scored_candidates) ==
            IF candidate_idxs = <<>> THEN Fallback(world)
            ELSE IF scored_candidates = <<>>
            THEN BestTfidf(tfidf_sims,
                           FirstIndex(tfidf_sims, LAMBDA t :
                               \A k \in 1..Len(tfidf_sims) : tfidf_sims[k] <= t))
            ELSE Take(scored_candidates, top_k)
        Immediately(candidates, sims, scored_candidates) ==
            IF detected_intent \in Immediate /\ candidates # <<>>
            THEN <<Item(Corpus(Choice(candidates, world)), Score(1, 1))>>
            ELSE Best(sims, scored_candidates)
    IN  Immediately(SelectSeq(eng.qa_list, LAMBDA e : e.norm_intent = detected_intent),
                    [k \in 1..Len(candidate_idxs) |->
                        Cosine(eng, user_norm, candidate_idxs[k], world)] \o <<>>,
                    GeneralBlend(eng, user_norm, candidate_idxs,
                            [k \in 1..Len(candidate_idxs) |->
                                Cosine(eng, user_norm, candidate_idxs[k], world)] \o <<>>))

\* Retriever._answer_general_morocco_query
_answer_general_morocco_query(eng, user_input, top_k, world) ==
    IF ExactMatch(eng, normalize_text(user_input)) # 0
    THEN <<Item(Corpus(eng.qa_list[ExactMatch(eng, normalize_text(user_input))]),
                Score(1, 1))>>
    ELSE GeneralAnswer(eng, normalize_text(user_input), top_k, world,
                       _detect_intent(eng, user_input))

(***************************************************************************)
(* Retriever.get_answer                                                    *)
(***************************************************************************)
\* the result of a call and what it did on the way
Call(branch, responses, raised, lookups, stages) ==
    [branch |-> branch, responses |-> responses, raised |-> raised,
     lookups |-> lookups, stages |-> stages]

\* get_answer after the detection: the handler of the branch
Answer(eng, user_input, top_k, d, world) ==
    LET gc == eng.global_cities[d.global_city].data
        Answered(branch, responses) == Call(branch, responses, FALSE, <<>>, <<>>)
        \* the weather of the Moroccan city, else of the global city
        Weather(reply) == Call("weather", reply.responses, reply.raised, reply.lookups, <<>>)
        Distance(reply) == Call("distance", reply.responses, FALSE, <<>>, reply.stages)
        country_display ==
            IF Lower(d.country_detected) \in {<<"u","s","a">>, <<"u","k">>}
            THEN [i \in 1..Len(d.country_detected) |-> UpperChar(d.country_detected[i])] \o <<>>
            ELSE Title(d.country_detected)
    IN  CASE Route(d) = "weather" /\ (d.moroccan_city # <<>> \/ d.global_city # 0) ->
                Weather(WeatherReply(IF d.moroccan_city # <<>> THEN d.moroccan_city
                                     ELSE IF gc.city # <<>> THEN gc.city ELSE gc.city_ascii,
                                     d.moroccan_city = <<>>, world.provider))
          [] Route(d) = "weather" /\ ~(d.moroccan_city # <<>> \/ d.global_city # 0) ->
                Answered("weather",
                         <<Item(Msg("weather_which_city", <<>>, <<>>, 0, FALSE),
                                Score(1, 2))>>)
          [] Route(d) = "distance" ->
                Distance(DistanceReply(eng, user_input))
          [] Route(d) = "moroccan_city" ->
                Answered("moroccan_city",
                         _answer_moroccan_city_query(eng, user_input, d.moroccan_city,
                                                     top_k, world))
          [] Route(d) = "global_city" ->
                Answered("global_city", <<Item(format_world_city_response(gc), Score(1, 1))>>)
          [] Route(d) = "foreign_country" ->
                Answered("foreign_country",
                         <<Item(Msg("foreign_country", country_display, <<>>, 0, FALSE),
                                Score(3, 10))>>)
          [] Route(d) = "general_morocco" ->
                Answered("general_morocco",
                         _answer_general_morocco_query(eng, user_input, top_k, world))
          [] OTHER ->
                Answered(Route(d),
                         _answer_generic_query(eng, user_input, d.detected_intent, top_k,
                                               world))

\* get_answer from its detection on: the record of the whole call
Finish(eng, user_input, top_k, enter, world) ==
    LET Record(call) ==
            [query |-> user_input, top_k |-> top_k, det |-> enter.det, branch |-> call.branch,
             responses |-> call.responses, raised |-> call.raised, lookups |-> call.lookups,
             stages |-> call.stages]
    IN  Record(IF enter.returned
               THEN Call("empty", <<Item(Msg("ask_a_question", <<>>, <<>>, 0, FALSE),
                                         Score(0, 1))>>, FALSE, <<>>, <<>>)
               ELSE Answer(eng, user_input, top_k, enter.det, world))

\* Retriever.get_answer
get_answer(eng, user_input, top_k, world) ==
    Finish(eng, user_input, top_k, Enter(eng, user_input), world)

\* what the call does not decide itself: the weather provider's behaviour, the
\* cosines left open and the draw of np.random.choice
TfidfGrid == {1, 80}

Worlds(eng, user_input, d) ==
    LET corpus == d.ran /\ Route(d) \in {"moroccan_city", "general_morocco", "generic"}
        providers == IF Route(d) = "weather" THEN WeatherOutcomes ELSE {"full"}
        picks == IF corpus THEN 1..NumFallbacks ELSE {1}
        Build(free) ==
            {[provider |-> p,
              cosine |-> [i \in 1..Len(eng.qa_list) |-> IF i \in free THEN c[i] ELSE 0],
              pick |-> r] : p \in providers, c \in [free -> TfidfGrid], r \in picks}
    IN  Build(IF ~corpus THEN {}
             ELSE {i \in 1..Len(eng.qa_list) :
                      Cosine(eng, normalize_text(user_input), i,
                             [cosine |-> [k \in 1..Len(eng.qa_list) |-> 1]]) = 1})

(***************************************************************************)
(* The environment and the questions asked                                 *)
(***************************************************************************)
\* the JSON files of data/processed together, and worldcities_clean.csv
CorpusStates == {"ok", "empty", "missing", "corrupt"}

CsvStates == {"ok", "missing", "corrupt"}

Environments == [corpus : CorpusStates, csv : CsvStates, hash_seed : {0, 1}]

\* the questions a client asks
Questions ==
    {<<>>,
     <<" ">>,
     <<"?","?">>,
     <<"x","y","z">>,
     <<"h","e","l","l","o">>,
     <<"H","e","l","l","o","!">>,
     <<"t","e","l","l"," ","m","e">>,
     <<"t","e","l","l"," ","m","e"," ","a"," ","j","o","k","e">>,
     <<"a"," ","j","o","k","e","s">>,
     <<"r","a","n","d","o","m">>,
     <<"w","e","a","t","h","e","r">>,
     <<"w","e","a","t","h","e","r"," ","i","n"," ","R","a","b","a","t">>,
     <<"w","e","a","t","h","e","r"," ","i","n"," ","P","a","r","i","s">>,
     <<"w","e","a","t","h","e","r"," ","i","n"," ","T","e","m","a","r","a">>,
     <<"w","e","a","t","h","e","r"," ","i","n"," ","x","y","z">>,
     <<"W","e","a","t","h","e","r"," ","i","n"," ","F","e_grave","s">>,
     <<"w","e","a","t","h","e","r"," ","i","n"," ","R","a","b","a","t","t">>,
     <<"d","i","s","t","a","n","c","e"," ","f","r","o","m"," ","R","a","b","a","t"," ","t","o"," ","P","a","r","i","s">>,
     <<"d","i","s","t","a","n","c","e"," ","b","e","t","w","e","e","n"," ","T","o","k","y","o"," ","a","n","d"," ","F","e","s">>,
     <<"h","o","w"," ","f","a","r"," ","i","s"," ","c","a","s","a"," ","f","r","o","m"," ","x","y","z">>,
     <<"k","m"," ","R","a","b","a","t"," ","t","o"," ","R","a","b","a","t">>,
     <<"d","i","s","t","a","n","c","e"," ","R","a","b","a","t">>,
     <<"h","o","w"," ","f","a","r">>,
     <<"d","i","s","t","a","n","c","e"," ","f","r","o","m"," ","R","a","b","a","t","t"," ","t","o"," ","T","o","k","i","o">>,
     <<"P","a","r","i","s",","," ","T","o","k","y","o"," ","k","m">>,
     <<"B","e","a","c","h","e","s"," ","i","n"," ","R","a","b","a","t","?">>,
     <<"b","e","a","c","h","e","s"," ","i","n"," ","f","e","s">>,
     <<"c","a","s","a">>,
     <<"R","a","b","a","t"," ","j","o","k","e","s">>,
     <<"h","e","l","l","o"," ","R","a","b","a","t">>,
     <<"T","e","l","l"," ","m","e"," ","a","b","o","u","t"," ","P","a","r","i","s">>,
     <<"P","a","r","i","s">>,
     <<"T","o","k","y","o"," ","a","n","d"," ","M","o","r","o","c","c","o">>,
     <<"T","e","m","a","r","a"," ","b","e","a","c","h","e","s">>,
     <<"J","a","p","a","n">>,
     <<"J","a","p","a","n"," ","a","n","d"," ","M","o","r","o","c","c","o">>,
     <<"U","n","i","t","e","d"," ","S","t","a","t","e","s">>,
     <<"T","e","l","l"," ","m","e"," ","a","b","o","u","t"," ","M","o","r","o","c","c","o">>,
     <<"t","e","l","l"," ","a","b","o","u","t"," ","m","o","r","o","c","c","o">>,
     <<"B","e","a","c","h","e","s"," ","i","n"," ","M","o","r","o","c","c","o">>,
     <<"m","o","r","o","c","c","o">>,
     <<"m","o","r","o","c","c","o"," ","q","q","q"," ","q","q","q">>,
     <<"t","e","l","l"," ","a","b","o","u","t"," ","m","o","r","o","c","c","o"," ","r","o","c"," ","o","c","c">>,
     <<"h","e","l","l","o"," ","m","o","r","o","c","c","o">>,
     <<"b","e","a","c","h","e","s">>}

\* the largest top_k a client passes (the callers of the repository pass none: 1)
MaxTopK == 2

(***************************************************************************)
(* Spec: one client that constructs the engine and asks it questions, one  *)
(* call at a time (the main block of retriever.py, for any question)       *)
(***************************************************************************)
NoCall == [query |-> <<>>, top_k |-> 0, det |-> NotRun, branch |-> "none", responses |-> <<>>,
           raised |-> FALSE, lookups |-> <<>>, stages |-> <<>>]

NoLocals == [returned |-> FALSE, det |-> NotRun]

\* a get_answer that forgets self.cities on its way
EngineAfter_forgetful(eng) == [eng EXCEPT !.cities = <<>>]

\* the engine after a call of get_answer: the method and what it calls assign no
\* attribute of self or of self.city_detector
EngineAfter(eng) == eng

Init ==
    /\ env \in Environments
    /\ heap = <<>>
    /\ retriever = 0
    /\ pc = "start"
    /\ msg = <<>>
    /\ loc = NoLocals
    /\ out = NoCall
    /\ hist = [constructed |-> 0, overlap |-> FALSE]

\* retriever = Retriever(): an exception ends the program
Construct ==
    /\ pc = "start"
    /\ \E made \in {Retriever(env)} :
           IF made = <<>>
           THEN /\ pc' = "failed"
                /\ UNCHANGED <<heap, retriever, hist>>
           ELSE /\ pc' = "ready"
                /\ heap' = Append(heap, made[1])
                /\ retriever' = Len(heap) + 1
                /\ hist' = [hist EXCEPT !.constructed = @ + 1]
    /\ UNCHANGED <<env, msg, loc, out>>

\* retriever.get_answer(q, top_k) is called: the guard and the detection
Ask ==
    /\ pc = "ready"
    /\ \E q \in Questions :
          /\ msg' = q
          /\ loc' = Enter(heap[retriever], q)
    /\ pc' = "detected"
    /\ UNCHANGED <<env, heap, retriever, out, hist>>

\* the rest of the call, to its return; loc keeps what the call met on its way (the
\* provider's behaviour, the cosines, the random draw)
Reply ==
    /\ pc = "detected"
    /\ \E top_k \in 1..MaxTopK : \E world \in Worlds(heap[retriever], msg, loc.det) :
          /\ out' = Finish(heap[retriever], msg, top_k, loc, world)
          /\ loc' = [returned |-> loc.returned, det |-> loc.det, world |-> world]
    /\ heap' = [heap EXCEPT ![retriever] = EngineAfter(@)]
    /\ pc' = "answered"
    /\ UNCHANGED <<env, retriever, msg, hist>>

\* the client reads ans[0][0] and ans[0][1] and goes on to its next question; an
\* exception of the call, or an empty list, ends the program
Next_question ==
    /\ pc = "answered"
    /\ pc' = IF out.raised \/ out.responses = <<>> THEN "failed" ELSE "ready"
    /\ msg' = <<>>
    /\ loc' = NoLocals
    /\ out' = NoCall
    /\ UNCHANGED <<env, heap, retriever, hist>>

Next == Construct \/ Ask \/ Reply \/ Next_question

Spec == Init /\ [][Next]_vars

(***************************************************************************)
(* SpecApi: the Flask layer (chatbot_api.py).  Request threads share the   *)
(* module-level name retriever; a thread is interleaved with the others    *)
(* between reading that name and assigning it, and during get_answer.      *)
(* Here pc, msg, loc and out hold one value per thread.                    *)
(***************************************************************************)
\* the request threads the server runs at a time
NumThreads == 2

Threads == 1..NumThreads

\* the messages posted to /api/chat
ApiMessages == {<<>>, <<"h","e","l","l","o">>, <<"w","e","a","t","h","e","r"," ","i","n"," ","R","a","b","a","t">>, <<"x","y","z">>, <<"J","a","p","a","n">>, <<"h","o","w"," ","f","a","r">>}

\* POST /api/chat with a message, POST /api/init
Requests ==
    {[route |-> "chat", message |-> m] : m \in ApiMessages}
        \cup {[route |-> "init", message |-> <<>>]}

NoRequest == [route |-> "none", message |-> <<>>]

\* the files of a deployment: the gazetteer is in place, the corpus may be missing
ApiEnvironments ==
    {e \in Environments : e.corpus \in {"ok", "missing"} /\ e.csv = "ok" /\ e.hash_seed = 0}

\* the locals of a request: the object that retriever named when get_answer was
\* called on it, and the locals of that call
NoApiLocals == [self |-> 0, enter |-> NoLocals]

\* an HTTP response: the status, which body it is, the answer shown and the call of
\* get_answer behind it
Response(status, body, shown, call) ==
    [status |-> status, body |-> body, shown |-> shown, call |-> call]

NoResponse == Response(0, "none", <<>>, NoCall)

\* a chat that shows every answer it gets
chat_verbatim(call) ==
    IF call.raised THEN Response(500, "error", <<>>, call)
    ELSE IF call.responses = <<>> THEN Response(200, "no_information", <<>>, call)
    ELSE Response(200, "answer", <<call.responses[1].text>>, call)

\* chat: the response for what retriever.get_answer(user_message) returned or raised
chat(call) ==
    IF call.raised THEN Response(500, "error", <<>>, call)
    ELSE IF call.responses = <<>> THEN Response(200, "no_information", <<>>, call)
    ELSE IF call.responses[1].score < Score(2, 10)
    THEN Response(200, "outside_knowledge", <<>>, call)
    ELSE Response(200, "answer", <<call.responses[1].text>>, call)

\* an init_retriever that constructs whatever retriever holds
IsNone_always(r) == TRUE

\* if retriever is None
IsNone(r) == r = 0

InitApi ==
    /\ env \in ApiEnvironments
    /\ heap = <<>>
    /\ retriever = 0
    /\ pc = [t \in Threads |-> "idle"]
    /\ msg = [t \in Threads |-> NoRequest]
    /\ loc = [t \in Threads |-> NoApiLocals]
    /\ out = [t \in Threads |-> NoResponse]
    /\ hist = [constructed |-> 0, overlap |-> FALSE]

\* what a request does once init_retriever() has returned True
Initialized(t) ==
    IF msg[t].route = "init"
    THEN /\ pc' = [pc EXCEPT ![t] = "done"]
         /\ out' = [out EXCEPT ![t] = Response(200, "initialized", <<>>, NoCall)]
    ELSE /\ pc' = [pc EXCEPT ![t] = "call"]
         /\ UNCHANGED out

\* a chat that starts init_retriever before it looks at the message
Receive_unchecked(t) ==
    /\ pc[t] = "idle"
    /\ \E r \in Requests :
          /\ pc' = [pc EXCEPT ![t] = "init"]
          /\ msg' = [msg EXCEPT ![t] = [r EXCEPT !.message = Strip(@)]]
          /\ UNCHANGED out
    /\ UNCHANGED <<env, heap, retriever, loc, hist>>

\* a request arrives: chat strips the message and rejects an empty one with 400
Receive(t) ==
    /\ pc[t] = "idle"
    /\ \E r \in Requests :
          IF r.route = "chat" /\ Strip(r.message) = <<>>
          THEN /\ pc' = [pc EXCEPT ![t] = "done"]
               /\ msg' = [msg EXCEPT ![t] = r]
               /\ out' = [out EXCEPT ![t] = Response(400, "empty_message", <<>>, NoCall)]
          ELSE /\ pc' = [pc EXCEPT ![t] = "init"]
               /\ msg' = [msg EXCEPT ![t] = [r EXCEPT !.message = Strip(@)]]
               /\ UNCHANGED out
    /\ UNCHANGED <<env, heap, retriever, loc, hist>>

\* init_retriever, the test of the global: the calls of two threads overlap when
\* one makes the test while the other is between its test and its assignment
InitCheck(t) ==
    /\ pc[t] = "init"
    /\ IF IsNone(retriever)
       THEN /\ pc' = [pc EXCEPT ![t] = "construct"]
            /\ hist' = [hist EXCEPT !.overlap = @ \/ \E u \in Threads \ {t} :
                                                        pc[u] = "construct"]
            /\ UNCHANGED out
       ELSE /\ Initialized(t)
            /\ UNCHANGED hist
    /\ UNCHANGED <<env, heap, retriever, msg, loc>>

\* init_retriever, retriever = Retriever(): the assignment, or False when the
\* constructor raised
InitConstruct(t) ==
    /\ pc[t] = "construct"
    /\ \E made \in {Retriever(env)} :
           IF made = <<>>
           THEN /\ pc' = [pc EXCEPT ![t] = "done"]
                /\ out' = [out EXCEPT ![t] =
                              IF msg[t].route = "init"
                              THEN Response(500, "init_failed", <<>>, NoCall)
                              ELSE Response(500, "not_initialized", <<>>, NoCall)]
                /\ UNCHANGED <<heap, retriever, hist>>
           ELSE /\ heap' = Append(heap, made[1])
                /\ retriever' = Len(heap) + 1
                /\ hist' = [hist EXCEPT !.constructed = @ + 1]
                /\ Initialized(t)
    /\ UNCHANGED <<env, msg, loc>>

\* chat, retriever.get_answer(user_message): the global is read and the call
\* starts on the object it names
ChatDetect(t) ==
    /\ pc[t] = "call"
    /\ loc' = [loc EXCEPT ![t] = [self |-> retriever,
                                  enter |-> Enter(heap[retriever], msg[t].message)]]
    /\ pc' = [pc EXCEPT ![t] = "detected"]
    /\ UNCHANGED <<env, heap, retriever, msg, out, hist>>

\* the call returns and chat builds its response
ChatAnswer(t) ==
    /\ pc[t] = "detected"
    /\ \E world \in Worlds(heap[loc[t].self], msg[t].message, loc[t].enter.det) :
          out' = [out EXCEPT ![t] = chat(Finish(heap[loc[t].self], msg[t].message, 1,
                                                loc[t].enter, world))]
    /\ heap' = [heap EXCEPT ![loc[t].self] = EngineAfter(@)]
    /\ pc' = [pc EXCEPT ![t] = "done"]
    /\ UNCHANGED <<env, retriever, msg, loc, hist>>

\* the response is sent and the thread takes the next request
Return(t) ==
    /\ pc[t] = "done"
    /\ pc' = [pc EXCEPT ![t] = "idle"]
    /\ msg' = [msg EXCEPT ![t] = NoRequest]
    /\ loc' = [loc EXCEPT ![t] = NoApiLocals]
    /\ out' = [out EXCEPT ![t] = NoResponse]
    /\ UNCHANGED <<env, heap, retriever, hist>>

NextApi ==
    \E t \in Threads :
        \/ Receive(t)
        \/ InitCheck(t)
        \/ InitConstruct(t)
        \/ ChatDetect(t)
        \/ ChatAnswer(t)
        \/ Return(t)

SpecApi == InitApi /\ [][NextApi]_vars

(***************************************************************************)
(* Properties of get_answer (Spec)                                         *)
(***************************************************************************)
\* the call of get_answer has returned
Answered == pc = "answered"

\* the engine the client holds
Engine == heap[retriever]

\* the first corpus entry whose normalised question is the normalised query, as a
\* set of indices (empty when there is none)
FirstExact(eng, query) ==
    {i \in 1..Len(eng.qa_list) :
        /\ eng.qa_list[i].norm_question = normalize_text(query)
        /\ \A j \in 1..(i - 1) : eng.qa_list[j].norm_question # normalize_text(query)}

\* C1: for a non-empty query get_answer takes exactly one branch, and which one is
\* fixed by the detector outputs alone, in this priority: weather intent, distance
\* intent, Moroccan city, global city, a country other than Morocco, 'morocco'
\* mentioned, generic; the reply is the one that branch produces.
C1_BranchPriority ==
    Answered /\ out.det.ran =>
        /\ out.branch =
              IF out.det.detected_intent = <<"a","s","k","_","w","e","a","t","h","e","r">> THEN "weather"
              ELSE IF out.det.detected_intent = <<"a","s","k","_","d","i","s","t","a","n","c","e">> THEN "distance"
              ELSE IF out.det.moroccan_city # <<>> THEN "moroccan_city"
              ELSE IF out.det.global_city # 0 THEN "global_city"
              ELSE IF /\ out.det.country_detected # <<>>
                      /\ Lower(out.det.country_detected) # <<"m","o","r","o","c","c","o">>
                   THEN "foreign_country"
              ELSE IF out.det.morocco_mentioned THEN "general_morocco"
              ELSE "generic"
        /\ \A k \in 1..Len(out.responses) :
              out.responses[k].text.kind \in
                 CASE out.branch = "weather" -> {"weather", "weather_retry", "weather_which_city"}
                   [] out.branch = "distance" ->
                         {"distance", "did_you_mean", "could_not_identify", "two_valid_names",
                          "clarify_two_cities"}
                   [] out.branch = "global_city" -> {"world_city"}
                   [] out.branch = "foreign_country" -> {"foreign_country"}
                   [] OTHER -> {"corpus", "fallback"}

\* a global city and 'morocco' in one question: the global-city branch answers
C1_Witness ==
    /\ Answered
    /\ out.branch = "global_city"
    /\ out.det.morocco_mentioned
    /\ out.responses[1].text.kind = "world_city"

\* C2 as amended: in the Moroccan-city, general-Morocco and generic branches a query
\* whose normalised form equals the normalised question of a corpus entry is
\* answered by the first such entry alone, with score 1.0, whatever the intent.
C2_ExactMatchInCorpusBranches ==
    Answered /\ out.branch \in {"moroccan_city", "general_morocco", "generic"} =>
        \A i \in FirstExact(Engine, out.query) :
            out.responses = <<Item(Corpus(Engine.qa_list[i]), Score(1, 1))>>

\* a question of the corpus asked in the Moroccan-city branch with top_k = 2
C2_Witness ==
    /\ Answered
    /\ out.branch = "moroccan_city"
    /\ out.top_k = 2
    /\ FirstExact(Engine, out.query) # {}
    /\ Len(out.responses) = 1
    /\ out.responses[1].score = Score(1, 1)

\* C2 as stated: the exact match wins in every branch.
C2_ExactMatchEverywhere ==
    Answered /\ out.det.ran =>
        \A i \in FirstExact(Engine, out.query) :
            out.responses = <<Item(Corpus(Engine.qa_list[i]), Score(1, 1))>>

\* C3 as stated: the list get_answer returns is sorted by score, highest first, and
\* every score lies in [0, 1].
C3_ScoresSortedInUnitInterval ==
    Answered =>
        /\ \A k \in 1..Len(out.responses) :
              0 <= out.responses[k].score /\ out.responses[k].score <= Score(1, 1)
        /\ \A k \in 1..(Len(out.responses) - 1) :
              out.responses[k].score >= out.responses[k + 1].score

\* the general-Morocco branch returns a score above 1.0
C3_Witness ==
    /\ Answered
    /\ out.branch = "general_morocco"
    /\ out.responses # <<>>
    /\ out.responses[1].score > Score(1, 1)

C5_EmptyQuery ==
    Answered /\ (\A i \in 1..Len(out.query) : IsSpace(out.query[i])) =>
        /\ out.responses = <<Item(Msg("ask_a_question", <<>>, <<>>, 0, FALSE), 0)>>
        /\ ~out.det.ran
        /\ out.det = NotRun
        /\ out.lookups = <<>>
        /\ out.stages = <<>>

\* a query of one space
C5_Witness ==
    /\ Answered
    /\ out.query = <<" ">>
    /\ Len(out.responses) = 1
    /\ out.responses[1].score = 0

\* C6: in the weather branch get_weather is called at most once, and only with a
\* detected city; a lookup that gives nothing yields the retry prompt with 0.5, one
\* that gives the data yields the weather text with 1.0, prefixed exactly for a
\* global city; without a city the reply asks for one with 0.5 and nothing is looked
\* up.
C6_WeatherBranch ==
    Answered /\ out.branch = "weather" =>
        /\ Len(out.lookups) <= 1
        /\ Len(out.lookups) = 1 <=> (out.det.moroccan_city # <<>> \/ out.det.global_city # 0)
        /\ Len(out.responses) = 1
        /\ \A k \in 1..Len(out.lookups) :
              /\ out.lookups[k].requests <= 1
              /\ out.lookups[k].result = "None" =>
                    out.responses = <<Item(Msg("weather_retry", <<>>, <<>>, 0, FALSE),
                                           Score(1, 2))>>
              /\ out.lookups[k].result = "dict" =>
                    /\ out.responses[1].score = Score(1, 1)
                    /\ out.responses[1].text.kind = "weather"
                    /\ out.responses[1].text.prefix <=> out.det.moroccan_city = <<>>
        /\ out.lookups = <<>> =>
              out.responses = <<Item(Msg("weather_which_city", <<>>, <<>>, 0, FALSE),
                                     Score(1, 2))>>

\* the weather of a global city: the lookup succeeds and the reply has the prefix
C6_Witness ==
    /\ Answered
    /\ out.branch = "weather"
    /\ out.det.global_city # 0
    /\ Len(out.lookups) = 1
    /\ out.lookups[1].result = "dict"
    /\ out.responses[1].text.prefix

\* C7: in the distance branch the stages run in order: the extractor for two places;
\* with exactly one place found, its name is cut from the text and one more place is
\* extracted; else the text is split at the delimiters and the parts are resolved
\* until two resolve.  The first stage that yields two places ends the search with the
\* reply of get_city_distance and score 1.0; when none does the reply asks for
\* two cities with score 0.5.
C7_DistanceStages ==
    Answered /\ out.branch = "distance" =>
        LET text == Strip(out.query)
            found == _extract_cities_from_text(Engine, text, 2)
            more == IF Len(found) = 1
                    THEN _extract_cities_from_text(
                             Engine, Strip(RemoveAll(text, found[1].name)), 1)
                    ELSE <<>>
            pieces == SplitDelimiters(text)
            parts == SelectSeq([p \in 1..Len(pieces) |-> Strip(pieces[p])] \o <<>>,
                               LAMBDA p : p # <<>>)
            candidates == ResolveParts(Engine, parts, 1, <<>>)
            Measured(a, b) ==
                out.responses = <<Item(get_city_distance(Engine, a.name, b.name), Score(1, 1))>>
        IN  IF Len(found) >= 2
            THEN out.stages = <<"extract">> /\ Measured(found[1], found[2])
            ELSE IF Len(found) = 1 /\ more # <<>>
            THEN out.stages = <<"extract", "strip">> /\ Measured(found[1], more[1])
            ELSE /\ out.stages = IF Len(found) = 1 THEN <<"extract", "strip", "split">>
                                 ELSE <<"extract", "split">>
                 /\ IF Len(candidates) >= 2 THEN Measured(candidates[1], candidates[2])
                    ELSE out.responses =
                            <<Item(Msg("clarify_two_cities", <<>>, <<>>, 0, FALSE),
                                   Score(1, 2))>>

\* one place is extracted, the second is found after its name is cut from the text
C7_Witness ==
    /\ Answered
    /\ out.branch = "distance"
    /\ out.stages = <<"extract", "strip">>
    /\ out.responses[1].score = Score(1, 1)
    /\ out.responses[1].text.kind = "distance"

\* C8 as stated: a request is served only by an engine built from an intact corpus
\* and an intact gazetteer file; otherwise the construction fails.
C8_AllOrNothing ==
    pc \in {"ready", "detected", "answered"} => env.corpus = "ok" /\ env.csv = "ok"

\* a question is answered by an engine whose gazetteer is empty
C8_Witness ==
    /\ Answered
    /\ env.csv = "missing"
    /\ Engine.global_cities = <<>>
    /\ out.responses # <<>>

\* C16: a weather reply with score 1.0 shows a temperature, a humidity, a condition
\* and a wind speed: get_weather gives None whenever one of them is missing from
\* the provider's body.
C16_WeatherReplyComplete ==
    Answered /\ Len(out.responses) >= 1 /\ out.responses[1].text.kind = "weather" =>
        /\ out.responses[1].score = Score(1, 1)
        /\ out.responses[1].text.y # <<>>
        /\ \A i \in 1..Len(out.responses[1].text.w) : out.responses[1].text.w[i] # <<"N","o","n","e">>

\* the provider answers 200 with 'main' and 'weather' that hold none of the fields,
\* and the reply with score 1.0 prints None for the three numbers
C16_Witness ==
    /\ Answered
    /\ ~out.raised
    /\ out.lookups # <<>>
    /\ out.lookups[1].result = "dict"
    /\ out.responses[1].score = Score(1, 1)
    /\ out.responses[1].text.w = <<<<"N","o","n","e">>, <<"N","o","n","e">>, <<"N","o","n","e">>>>
    /\ out.responses[1].text.y = <<>>

\* C24: in the Moroccan-city branch, when there is no exact match and no immediate
\* greeting or joke reply, the candidates are the entries whose intent is not
\* greeting, farewell, irrelevant_question or rude_or_aggressive, narrowed to those
\* of the detected city when there are any, then to those of the detected intent
\* when there are any among them; every answer is of a candidate and has a score
\* above 0.15, or the reply is one random fallback with score 0.0.
C24_CityCandidates ==
    /\ Answered
    /\ out.branch = "moroccan_city"
    /\ ExactMatch(Engine, normalize_text(out.query)) = 0
    /\ ~(/\ out.det.detected_intent \in Immediate
         /\ \E i \in 1..Len(Engine.qa_list) :
               Engine.qa_list[i].norm_intent = out.det.detected_intent)
    =>
    LET qa == Engine.qa_list
        open == {i \in 1..Len(qa) :
                    qa[i].norm_intent \notin {<<"g","r","e","e","t","i","n","g">>, <<"f","a","r","e","w","e","l","l">>, <<"i","r","r","e","l","e","v","a","n","t","_","q","u","e","s","t","i","o","n">>,
                                              <<"r","u","d","e","_","o","r","_","a","g","g","r","e","s","s","i","v","e">>}}
        tagged == {i \in open : qa[i].norm_city = out.det.moroccan_city}
        by_city == IF tagged # {} THEN tagged ELSE open
        wanted == {i \in by_city : qa[i].norm_intent = out.det.detected_intent}
        candidates == IF wanted # {} THEN wanted ELSE by_city
    IN  \/ /\ Len(out.responses) = 1
           /\ out.responses[1].text.kind = "fallback"
           /\ out.responses[1].score = 0
        \/ \A k \in 1..Len(out.responses) :
              /\ \E i \in candidates : out.responses[k].text = Corpus(qa[i])
              /\ out.responses[k].score > Score(15, 100)

\* no entry is tagged with Fes, so the narrowing by city is skipped and the one by
\* intent leaves the beaches of Rabat, which is the answer
C24_Witness ==
    /\ Answered
    /\ out.branch = "moroccan_city"
    /\ out.query = <<"b","e","a","c","h","e","s"," ","i","n"," ","f","e","s">>
    /\ out.det.moroccan_city = <<"f","e","s">>
    /\ out.det.detected_intent = <<"a","s","k","_","b","e","a","c","h","e","s">>
    /\ out.responses[1].text = Corpus(Engine.qa_list[1])
    /\ Engine.qa_list[1].norm_city = <<"r","a","b","a","t">>
    /\ Len(out.responses) = 1

\* C25: the generic branch returns exactly one item whatever top_k is; the
\* Moroccan-city and the general-Morocco branch return at least one item and at
\* most top_k.
C25_ItemsPerBranch ==
    Answered =>
        /\ out.branch = "generic" => Len(out.responses) = 1
        /\ out.branch \in {"moroccan_city", "general_morocco"} =>
              Len(out.responses) >= 1 /\ Len(out.responses) <= out.top_k

\* a generic question without an intent, asked with top_k = 2, for which two
\* candidates have a fuzzy similarity of 0.4 and so a score above 0.15: one item is
\* returned
C25_Witness ==
    /\ Answered
    /\ out.branch = "generic"
    /\ out.top_k = 2
    /\ Len(out.responses) = 1
    /\ out.responses[1].text.kind = "corpus"
    /\ out.responses[1].score < Score(1, 1)
    /\ out.det.detected_intent = <<>>
    /\ \E i, j \in 1..Len(Engine.qa_list) :
          /\ i # j
          /\ \A k \in {i, j} :
                /\ Engine.qa_list[k].norm_intent \notin Excluded
                /\ RatGE(_fuzzy_similarity(normalize_text(out.query),
                                           Engine.qa_list[k].norm_question), 40, 100)

\* C26: in the general-Morocco branch, when some entry is of intent general_morocco
\* and there is neither an exact match nor an immediate greeting or joke reply: the
\* boost raises no score by more than 0.80 of its blend; the reply is never the
\* random fallback; when no candidate has a final score above 0.1 the reply is the
\* one entry of the largest TF-IDF similarity, with that similarity as its score.
C26_GeneralNeverFallback ==
    /\ Answered
    /\ out.branch = "general_morocco"
    /\ \E i \in 1..Len(Engine.qa_list) : Engine.qa_list[i].norm_intent = <<"g","e","n","e","r","a","l","_","m","o","r","o","c","c","o">>
    /\ ExactMatch(Engine, normalize_text(out.query)) = 0
    /\ ~(/\ out.det.detected_intent \in Immediate
         /\ \E i \in 1..Len(Engine.qa_list) :
               Engine.qa_list[i].norm_intent = out.det.detected_intent)
    =>
    LET qa == Engine.qa_list
        user_norm == normalize_text(out.query)
        general == {i \in 1..Len(qa) : qa[i].norm_intent = <<"g","e","n","e","r","a","l","_","m","o","r","o","c","c","o">>}
        t(i) == Cosine(Engine, user_norm, i, loc.world)
        f(i) == _fuzzy_similarity(user_norm, qa[i].norm_question)
        blend(i) == 85 * t(i) * f(i)[2] + 1500 * f(i)[1]
        final(i) == blend(i) * (100 + Boost(user_norm, Lower(qa[i].norm_question)))
        kept == {i \in general : final(i) > 100000 * f(i)[2]}
        best == CHOOSE i \in general :
                    \A j \in general : t(j) < t(i) \/ (t(j) = t(i) /\ i <= j)
    IN  /\ \A k \in 1..Len(out.responses) : out.responses[k].text.kind = "corpus"
        /\ kept = {} => out.responses = <<Item(Corpus(qa[best]), Score(t(best), 100))>>
        /\ kept # {} =>
              \A k \in 1..Len(out.responses) :
                  \E i \in kept :
                      /\ out.responses[k].text = Corpus(qa[i])
                      /\ out.responses[k].score * f(i)[2] <= blend(i) * 180
                      /\ out.responses[k].score >= (blend(i) * 100) \div f(i)[2]

\* no candidate is above 0.1 (the cosines are small and the question is unlike the
\* entries): the reply is an entry, with its cosine of 0.01 as the score
C26_Witness ==
    /\ Answered
    /\ out.branch = "general_morocco"
    /\ out.query = <<"m","o","r","o","c","c","o"," ","q","q","q"," ","q","q","q">>
    /\ Len(out.responses) = 1
    /\ out.responses[1].text.kind = "corpus"
    /\ out.responses[1].score = Score(1, 100)


\* C28 as stated: when the extractor finds fewer than two places, the two places the
\* distance branch measures (the second from the text with the first name cut out, or
\* both from the split at the delimiters) have different normalized names.
C28_SecondPlaceDiffers ==
    Answered /\ out.branch = "distance" /\ out.stages # <<"extract">>
             /\ out.responses[1].text.kind = "distance" =>
        normalize_text(out.responses[1].text.x) # normalize_text(out.responses[1].text.y)

\* a question naming one city by an abbreviation: cutting the resolved name from the
\* text removes nothing, and the distance from Casablanca to Casablanca is reported
C28_Witness ==
    /\ Answered
    /\ out.query = <<"h","o","w"," ","f","a","r"," ","i","s"," ","c","a","s","a"," ","f","r","o","m"," ","x","y","z">>
    /\ out.branch = "distance"
    /\ out.stages = <<"extract", "strip">>
    /\ out.responses[1].score = Score(1, 1)
    /\ out.responses[1].text.kind = "distance"
    /\ out.responses[1].text.x = <<"C","a","s","a","b","l","a","n","c","a">>
    /\ out.responses[1].text.y = <<"C","a","s","a","b","l","a","n","c","a">>
    /\ out.responses[1].text.n = 0

(***************************************************************************)
(* Properties of the Flask layer (SpecApi)                                 *)
(***************************************************************************)
\* C9: two requests that arrive before the engine exists can both find retriever
\* None and both construct a Retriever, the later assignment replacing the earlier;
\* a Retriever is constructed successfully more than once only when two calls of
\* init_retriever overlap.
C9_OnceWhenSerialized ==
    /\ hist.constructed = Len(heap)
    /\ hist.constructed >= 2 => hist.overlap
    /\ retriever # 0 => retriever = Len(heap)

\* both threads have constructed: the second Retriever has replaced the first
C9_Witness ==
    /\ hist.constructed = 2
    /\ hist.overlap
    /\ Len(heap) = 2
    /\ retriever = 2

\* C10: a call of get_answer leaves every Retriever as it was constructed, and the
\* call of a request, however the other requests interleave with it, returns what
\* get_answer returns on that Retriever when run on its own (for some behaviour of
\* the weather provider and some random draw).
C10_CallsIndependent ==
    /\ [](\A t \in Threads :
            pc[t] = "done" /\ out[t].call # NoCall =>
                \E world \in Worlds(heap[loc[t].self], msg[t].message,
                                    Enter(heap[loc[t].self], msg[t].message).det) :
                    out[t].call = get_answer(heap[loc[t].self], msg[t].message, 1, world))
    /\ [][\A i \in 1..Len(heap) : heap'[i] = heap[i]]_vars

\* one request has its answer while another is inside get_answer on the same engine
C10_Witness ==
    \E t \in Threads : \E u \in Threads \ {t} :
        /\ pc[t] = "done"
        /\ out[t].body = "answer"
        /\ pc[u] = "detected"
        /\ loc[u].self = loc[t].self


\* C30: while no two calls of init_retriever have overlapped (as when the requests
\* are served one at a time): a chat with an empty message is
\* answered 400 before init_retriever is called; a request that finds retriever None
\* attempts the construction, whatever happened before; a failed construction leaves
\* retriever None and answers 500 without a call of get_answer; get_answer is called
\* only on a constructed Retriever; and once retriever is set it is never None again
\* and no other Retriever is constructed.
C30_InitLifecycle ==
    [][/\ retriever # 0 => retriever' # 0
       /\ \A t \in Threads :
             ~hist'.overlap /\ pc'[t] # pc[t] =>
                /\ retriever # 0 =>
                      /\ retriever' = retriever
                      /\ Len(heap') = Len(heap)
                      /\ hist'.constructed = hist.constructed
                      /\ pc'[t] # "construct"
                /\ pc[t] = "idle" =>
                      IF msg'[t].route = "chat" /\ Strip(msg'[t].message) = <<>>
                      THEN /\ pc'[t] = "done"
                           /\ out'[t] = Response(400, "empty_message", <<>>, NoCall)
                           /\ retriever' = retriever
                           /\ heap' = heap
                      ELSE pc'[t] = "init"
                /\ pc[t] = "init" /\ retriever = 0 => pc'[t] = "construct"
                /\ pc[t] = "construct" =>
                      IF Retriever(env) = <<>>
                      THEN /\ retriever' = 0
                           /\ heap' = heap
                           /\ pc'[t] = "done"
                           /\ out'[t].status = 500
                           /\ out'[t].call = NoCall
                      ELSE /\ retriever' = Len(heap')
                           /\ hist'.constructed = 1
                /\ pc'[t] = "call" \/ pc'[t] = "detected" => retriever' # 0]_vars

\* the corpus is missing: one request has been answered 500 after its construction
\* failed, and the next one, which started after it, is constructing again
C30_Witness ==
    /\ env.corpus = "missing"
    /\ ~hist.overlap
    /\ retriever = 0
    /\ pc[1] = "done"
    /\ out[1] = Response(500, "not_initialized", <<>>, NoCall)
    /\ pc[2] = "construct"

(***************************************************************************)
(* SpecFn: the functions of the engine called on their own, on an engine   *)
(* constructed over one of two gazetteer files                             *)
(***************************************************************************)
\* a row of a gazetteer file
CsvRow(city, country, lat, lng, population) ==
    [city |-> city, city_ascii |-> city, country |-> country, lat |-> lat, lng |-> lng,
     population |-> population]

\* a gazetteer of towns: two names close to each other, one above and one below
\* 50,000 inhabitants, a small town alone, and a name with a letter outside ASCII that
\* has no decomposition
towns ==
    << CsvRow(<<"T","e","m","a","r","a">>, <<"M","o","r","o","c","c","o">>, 34, -7, 313510),
       CsvRow(<<"T","e","m","a","r","r","a","s">>, <<"S","p","a","i","n">>, 40, -3, 100),
       CsvRow(<<"A","z","r","o","u">>, <<"M","o","r","o","c","c","o">>, 33, -5, 1000),
       CsvRow(<<"T","o","k","y","o">>, <<"J","a","p","a","n">>, 36, 140, 37732000),
       [city |-> <<"P","i","l_stroke","a">>, city_ascii |-> <<"P","i","l","a">>, country |-> <<"P","o","l","a","n","d">>,
        lat |-> 53, lng |-> 17, population |-> 73000] >>

\* Retriever() when worldcities_clean.csv holds these rows
EngineOn(files, rows) ==
    LET With(made, loaded) ==
            [made[1] EXCEPT !.global_cities = loaded.cities,
                            !.countries = SetOrder(files.hash_seed, loaded.countries)]
    IN  With(Retriever(files), ReadRows(rows))

\* the rows a gazetteer file is made of, for the loader alone
RowPool ==
    {CsvRow(<<"P","a","r","i","s">>, <<"F","r","a","n","c","e">>, 49, 2, 100),
     CsvRow(<<"p","a","r","i","s">>, <<"U","n","i","t","e","d"," ","S","t","a","t","e","s">>, 34, -96, 100),
     CsvRow(<<" ","P","a","r","i","s"," ">>, <<"C","a","n","a","d","a">>, 43, -80, 60000),
     CsvRow(<<"P","a","r","i","s">>, <<"T","e","x","a","s">>, 34, -96, -1),
     CsvRow(<<"L","y","o","n">>, <<"F","r","a","n","c","e">>, 46, 5, -2),
     CsvRow(<<>>, <<"S","p","a","i","n">>, 0, 0, -2)}

\* the longest gazetteer file given to the loader
MaxRows == 3

\* the longest string given to normalize_text
MaxLen == 4

\* the largest max_cities given to _extract_cities_from_text
MaxCities == 3

\* the values given to normalize_text: strings over a few characters, and values
\* that are no strings
NormValues ==
    {[type |-> "str", str |-> s] :
        s \in UNION {[1..n -> {"a", "S", "s", "'", " ", "!", "7", "e_grave", "fraktur_H"}] :
                         n \in 0..MaxLen}}
        \cup {[type |-> t, str |-> <<>>] : t \in {"NoneType", "int", "list"}}

\* normalize_text on any value: the isinstance test, then the normalisation
normalize_text_value(v) == IF v.type # "str" THEN <<>> ELSE normalize_text(v.str)

\* the names given to find_city_coordinates and get_city_distance
PlaceNames ==
    {<<"R","a","b","a","t">>, <<"r","a","b","a","t">>, <<"R","a","b","a","t","t">>, <<"F","e","s">>, <<"c","a","s","a">>, <<"P","a","r","i","s">>, <<"T","o","k","y","o">>, <<"T","o","k","i","o">>,
     <<"T","e","m","a","r","a">>, <<"T","e","m","a","r","r","a">>, <<"A","z","r","o","u","u">>, <<"x","y","z">>}

\* the texts given to _detect_intent and detect_city
IntentTexts ==
    Questions \cup
    {<<"j","o","k","e","s","t","e","r">>, <<"h","e","l","l","o"," ","j","o","k","e","s","t","e","r">>, <<"j","o","k","e"," ","k","m"," ","w","e","a","t","h","e","r"," ","h","e","l","l","o">>, <<"w","e","a","t","h","e","r"," ","k","m">>,
     <<"k","m"," ","h","e","l","l","o">>, <<"w","e","a","t","h","e","r"," ","h","e","l","l","o"," ","b","e","a","c","h">>, <<"b","e","a","c","h"," ","h","e","l","l","o">>, <<"h","e","l","l","o"," ","b","e","a","c","h">>, <<"r","a","n","d","o","m"," ","b","e","a","c","h","e","s">>,
     <<"R","a","b","a","t"," ","2"," ","F","e","s">>, <<"a","b","o","u","t"," ","M","o","r","o","c","c","o"," ","r","a","n","d","o","m">>, <<"P","a","r","i","s"," ","R","a","b","a","t">>, <<"T","o","k","y","o"," ","P","a","r","i","s">>,
     <<"T","o","k","y","o"," ","2"," ","P","a","r","i","s">>, <<"c","a","s","a"," ","T","o","k","y","o">>, <<"f","r","o","m"," ","P","i","l","a"," ","t","o"," ","T","o","k","y","o">>}

InitFn ==
    /\ env \in {e \in Environments : e.corpus = "ok" /\ e.csv = "ok"}
    /\ \E rows \in {worldcities_clean, towns} : heap = <<EngineOn(env, rows)>>
    /\ retriever = 1
    /\ pc = "idle"
    /\ msg = <<>>
    /\ loc = NoLocals
    /\ out = NoCall
    /\ hist = [constructed |-> 1, overlap |-> FALSE]

\* the call of one function: pc names it, msg holds its arguments, out its result
Call_normalize_text ==
    /\ pc = "idle"
    /\ \E v \in NormValues :
          /\ msg' = v
          /\ out' = normalize_text_value(v)
    /\ pc' = "normalize_text"
    /\ UNCHANGED <<env, heap, retriever, loc, hist>>

Call_load_global_cities ==
    /\ pc = "idle"
    /\ \E rows \in UNION {[1..n -> RowPool] : n \in 0..MaxRows} :
          /\ msg' = rows
          /\ out' = ReadRows(rows)
    /\ pc' = "_load_global_cities"
    /\ UNCHANGED <<env, heap, retriever, loc, hist>>

Call_detect_intent ==
    /\ pc = "idle"
    /\ \E text \in IntentTexts :
          /\ msg' = text
          /\ out' = _detect_intent(heap[retriever], text)
    /\ pc' = "_detect_intent"
    /\ UNCHANGED <<env, heap, retriever, loc, hist>>

Call_detect_city ==
    /\ pc = "idle"
    /\ \E text \in IntentTexts :
          /\ msg' = text
          /\ out' = detect_city(heap[retriever], text)
    /\ pc' = "detect_city"
    /\ UNCHANGED <<env, heap, retriever, loc, hist>>

Call_find_city_coordinates ==
    /\ pc = "idle"
    /\ \E name \in PlaceNames :
          /\ msg' = name
          /\ out' = find_city_coordinates(heap[retriever], name)
    /\ pc' = "find_city_coordinates"
    /\ UNCHANGED <<env, heap, retriever, loc, hist>>

Call_get_city_distance ==
    /\ pc = "idle"
    /\ \E a \in PlaceNames : \E b \in PlaceNames :
          /\ msg' = <<a, b>>
          /\ out' = get_city_distance(heap[retriever], a, b)
    /\ pc' = "get_city_distance"
    /\ UNCHANGED <<env, heap, retriever, loc, hist>>

Call_extract_cities_from_text ==
    /\ pc = "idle"
    /\ \E text \in IntentTexts, max_cities \in 1..MaxCities :
          /\ msg' = <<text, max_cities>>
          /\ out' = _extract_cities_from_text(heap[retriever], text, max_cities)
          /\ loc' = IF text = <<>> THEN [used_spans |-> {}, passed |-> <<>>]
                     ELSE [used_spans |-> ExtractScan(heap[retriever], text, max_cities)[2],
                           passed |-> ExtractScan(heap[retriever], text, max_cities)[3]]
    /\ pc' = "_extract_cities_from_text"
    /\ UNCHANGED <<env, heap, retriever, hist>>

\* the call has returned; the next one can be made
Returned ==
    /\ pc # "idle"
    /\ pc' = "idle"
    /\ msg' = <<>>
    /\ loc' = NoLocals
    /\ out' = NoCall
    /\ UNCHANGED <<env, heap, retriever, hist>>

NextFn ==
    \/ Call_normalize_text
    \/ Call_load_global_cities
    \/ Call_detect_intent
    \/ Call_detect_city
    \/ Call_find_city_coordinates
    \/ Call_get_city_distance
    \/ Call_extract_cities_from_text
    \/ Returned

SpecFn == InitFn /\ [][NextFn]_vars

(***************************************************************************)
(* SpecCallers: the two programs that call the engine, the Flask layer and *)
(* the command-line loop (cli_chatbot.py).  The loop is thread 1 of its    *)
(* process; its other threads do not exist ("off").                        *)
(***************************************************************************)
\* main, after get_answer: what the loop prints for responses[0]; an exception ends
\* the program
main(call) ==
    IF call.raised \/ call.responses = <<>> THEN Response(0, "error", <<>>, call)
    ELSE IF call.responses[1].score < Score(2, 10)
    THEN Response(0, "outside_knowledge", <<>>, call)
    ELSE Response(0, "answer", <<call.responses[1].text>>, call)

\* main up to its loop: retriever = Retriever()
InitCli ==
    /\ env \in ApiEnvironments
    /\ heap = Retriever(env)
    /\ retriever = Len(heap)
    /\ pc = [t \in Threads |-> IF t > 1 THEN "off"
                               ELSE IF heap = <<>> THEN "cli_exit" ELSE "cli_prompt"]
    /\ msg = [t \in Threads |-> NoRequest]
    /\ loc = [t \in Threads |-> NoApiLocals]
    /\ out = [t \in Threads |-> NoResponse]
    /\ hist = [constructed |-> Len(heap), overlap |-> FALSE]

\* input("You: ").strip(): quit and exit end the loop, anything else, the empty line
\* included, is passed to get_answer
CliInput ==
    /\ pc[1] \in {"cli_prompt", "cli_shown"}
    /\ \E typed \in ApiMessages \cup {<<"Q","u","i","t">>, <<" ","J","a","p","a","n"," ">>} :
          IF Lower(Strip(typed)) \in {<<"q","u","i","t">>, <<"e","x","i","t">>}
          THEN /\ pc' = [pc EXCEPT ![1] = "cli_exit"]
               /\ msg' = [msg EXCEPT ![1] = NoRequest]
               /\ loc' = [loc EXCEPT ![1] = NoApiLocals]
               /\ out' = [out EXCEPT ![1] = Response(0, "goodbye", <<>>, NoCall)]
          ELSE /\ pc' = [pc EXCEPT ![1] = "cli_called"]
               /\ msg' = [msg EXCEPT ![1] = [route |-> "cli", message |-> Strip(typed)]]
               /\ loc' = [loc EXCEPT ![1] = [self |-> retriever,
                                             enter |-> Enter(heap[retriever], Strip(typed))]]
               /\ out' = [out EXCEPT ![1] = NoResponse]
    /\ UNCHANGED <<env, heap, retriever, hist>>

\* responses = retriever.get_answer(user_input), and the answer printed
CliAnswer ==
    /\ pc[1] = "cli_called"
    /\ \E world \in Worlds(heap[loc[1].self], msg[1].message, loc[1].enter.det) :
          out' = [out EXCEPT ![1] = main(Finish(heap[loc[1].self], msg[1].message, 1,
                                                loc[1].enter, world))]
    /\ heap' = [heap EXCEPT ![loc[1].self] = EngineAfter(@)]
    /\ pc' = [pc EXCEPT ![1] = IF out'[1].body = "error" THEN "cli_exit" ELSE "cli_shown"]
    /\ UNCHANGED <<env, retriever, msg, loc, hist>>

SpecCallers == (InitApi \/ InitCli) /\ [][NextApi \/ CliInput \/ CliAnswer]_vars

(***************************************************************************)
(* Properties of the functions (SpecFn)                                    *)
(***************************************************************************)
\* C11: get_city_distance is symmetric: with the two names exchanged the reply is of
\* the same kind and, when it is a distance, gives the same number, the two city
\* names exchanged and the same prefix; for a name that resolves, the distance of
\* the place to itself is 0.
C11_DistanceSymmetric ==
    pc = "get_city_distance" =>
        LET back == get_city_distance(Engine, msg[2], msg[1])
        IN  /\ out.kind = back.kind
            /\ out.kind = "distance" =>
                  /\ out.n = back.n
                  /\ out.x = back.y
                  /\ out.y = back.x
                  /\ out.prefix = back.prefix
            /\ msg[1] = msg[2] /\ find_city_coordinates(Engine, msg[1]) # NoPlace =>
                  out.kind = "distance" /\ out.n = 0

\* the distance of two different places, one of them outside Morocco
C11_Witness ==
    /\ pc = "get_city_distance"
    /\ out.kind = "distance"
    /\ out.n > 0
    /\ out.x # out.y
    /\ out.prefix

\* C13: normalize_text fails on no value and is idempotent: a value that is no
\* string gives the empty string; the result holds only the characters a-z, 0-9 and
\* single spaces between words; normalising the result again changes nothing.
C13_NormalizeIdempotent ==
    pc = "normalize_text" =>
        /\ msg.type # "str" => out = <<>>
        /\ \A i \in 1..Len(out) : out[i] \in AsciiLower \cup Digits \cup {" "}
        /\ \A i \in 1..Len(out) :
              out[i] = " " => i > 1 /\ i < Len(out) /\ out[i + 1] # " "
        /\ normalize_text_value([type |-> "str", str |-> out]) = out

\* a capital, a possessive marker and a punctuation mark: "S's!" becomes "s"
C13_Witness ==
    /\ pc = "normalize_text"
    /\ msg.type = "str"
    /\ msg.str = <<"S", "'", "s", "!">>
    /\ out = <<"s">>

\* C14: _detect_intent gives joke_or_troll when one of its triggers hits the
\* normalised question, else ask_distance when one of its triggers hits, else
\* ask_weather likewise, else the first category in the order of the table with a
\* trigger that hits the question or its spelled-out form; it gives None only when
\* no trigger of any category hits.
C14_IntentPriority ==
    pc = "_detect_intent" =>
        LET table == Engine.intent_keywords
            hits == KeywordHits(Engine, normalize_text(msg), FALSE)
            hits_expanded == KeywordHits(Engine, Expanded(normalize_text(msg)), TRUE)
            first == <<<<"j","o","k","e","_","o","r","_","t","r","o","l","l">>, <<"a","s","k","_","d","i","s","t","a","n","c","e">>, <<"a","s","k","_","w","e","a","t","h","e","r">>>>
            Hit(name) == \E r \in 1..Len(table) : table[r].intent = name /\ hits[r]
            rest == {r \in 1..Len(table) :
                        /\ \A p \in 1..3 : table[r].intent # first[p]
                        /\ hits[r] \/ hits_expanded[r]}
        IN  /\ \A p \in 1..3 :
                  Hit(first[p]) /\ (\A h \in 1..(p - 1) : ~Hit(first[h])) => out = first[p]
            /\ (\A p \in 1..3 : ~Hit(first[p])) =>
                  /\ \A r \in rest : (\A j \in rest : r <= j) => out = table[r].intent
                  /\ rest = {} => out = <<>>
            /\ out = <<>> => rest = {} /\ \A p \in 1..3 : ~Hit(first[p])

\* a question with triggers of four categories: the joke wins over the distance, the
\* weather and the greeting, which is declared first
C14_Witness ==
    /\ pc = "_detect_intent"
    /\ msg = <<"j","o","k","e"," ","k","m"," ","w","e","a","t","h","e","r"," ","h","e","l","l","o">>
    /\ out = <<"j","o","k","e","_","o","r","_","t","r","o","l","l">>

\* C15: a question is classified joke_or_troll only when one of the joke triggers
\* is a whole word of the normalised question, or its lemma is a whole word of the
\* lemmatised question, or its similarity to the whole question is above 0.8.
C15_JokeTriggerWholeWord ==
    pc = "_detect_intent" /\ out = <<"j","o","k","e","_","o","r","_","t","r","o","l","l">> =>
        \E r \in 1..Len(Engine.intent_keywords) :
            /\ Engine.intent_keywords[r].intent = <<"j","o","k","e","_","o","r","_","t","r","o","l","l">>
            /\ \E k \in 1..Len(Engine.intent_keywords[r].keywords) :
                  \/ WordSearch(normalize_text(Engine.intent_keywords[r].keywords[k]),
                                normalize_text(msg))
                  \/ WordSearch(lemmatize_text(normalize_text(Engine.intent_keywords[r].keywords[k])),
                                lemmatize_text(normalize_text(msg)))
                  \/ RatGT(_fuzzy_similarity(normalize_text(msg),
                                             normalize_text(Engine.intent_keywords[r].keywords[k])),
                           80, 100)

\* a question whose only word has the trigger as a proper part is classified
C15_Witness ==
    /\ pc = "_detect_intent"
    /\ msg = <<"j","o","k","e","s","t","e","r">>
    /\ out = <<"j","o","k","e","_","o","r","_","t","r","o","l","l">>

C18_KeepsLargest ==
    pc = "_load_global_cities" =>
        LET named == {i \in 1..Len(msg) : Strip(msg[i].city) # <<>>}
            Key(i) == [c \in 1..Len(Strip(msg[i].city)) |-> LowerChar(Strip(msg[i].city)[c])] \o <<>>
            Pop(i) == ParsePopulation(msg[i].population)
            Best(i) == \A j \in named :
                          Key(j) = Key(i) => Pop(j) < Pop(i) \/ (Pop(j) = Pop(i) /\ i <= j)
        IN  /\ \A i \in named :
                  Best(i) => \E k \in 1..Len(out.cities) :
                                out.cities[k] = [key |-> Key(i),
                                                 data |-> [msg[i] EXCEPT !.city = Strip(msg[i].city)]]
            /\ \A k, l \in 1..Len(out.cities) : out.cities[k].key = out.cities[l].key => k = l
            /\ \A k \in 1..Len(out.cities) : \E i \in named : Key(i) = out.cities[k].key

\* a row whose population reads as infinity ends the loading: the larger Paris
\* that follows it is not kept
C18_Witness ==
    /\ pc = "_load_global_cities"
    /\ msg = <<CsvRow(<<"P","a","r","i","s">>, <<"F","r","a","n","c","e">>, 49, 2, 100),
               CsvRow(<<"L","y","o","n">>, <<"F","r","a","n","c","e">>, 46, 5, -2),
               CsvRow(<<" ","P","a","r","i","s"," ">>, <<"C","a","n","a","d","a">>, 43, -80, 60000)>>
    /\ Len(out.cities) = 1
    /\ out.cities[1].data.country = <<"F","r","a","n","c","e">>

\* C19: when the query is no key of the gazetteer, find_city_coordinates returns
\* a record that passes the threshold; a record of at least 50,000 inhabitants is
\* the best (score, then population) of the passing records of that size, and a
\* smaller record is returned only when no passing record has 50,000 inhabitants,
\* whatever the scores of the smaller ones.
C19_MajorBeforeMinor ==
    /\ pc = "find_city_coordinates"
    /\ msg # <<>>
    /\ Lookup(Engine.global_cities, normalize_text(msg)) = 0
    =>
    LET gc == Engine.global_cities
        sims == Similarities(gc, normalize_text(msg))
        boost == detect_moroccan_city(Engine, msg) # <<>>
        Plain(k) == IF RatLess(sims[k][1], sims[k][2]) THEN sims[k][2] ELSE sims[k][1]
        Raised(x) == IF 20 * x[1] + 3 * x[2] >= 20 * x[2] THEN <<1, 1>>
                     ELSE <<20 * x[1] + 3 * x[2], 20 * x[2]>>
        InMorocco(k) ==
            [c \in 1..Len(Strip(gc[k].data.country)) |-> LowerChar(Strip(gc[k].data.country)[c])]
                \o <<>> = <<"m","o","r","o","c","c","o">>
        score(k) == IF boost /\ InMorocco(k) THEN Raised(Plain(k)) ELSE Plain(k)
        pop(k) == ParsePopulation(gc[k].data.population)
        passing == {k \in 1..Len(gc) :
                       RatGE(score(k), IF Len(normalize_text(msg)) <= 5 THEN 90
                                       ELSE CITY_MATCH_THRESHOLD, 100)}
        major == {k \in passing : pop(k) >= 50000}
        Ahead(k, j) == \/ RatLess(score(j), score(k))
                       \/ ~RatLess(score(k), score(j)) /\ pop(j) <= pop(k)
        Is(k) == /\ out.name = gc[k].data.city
                 /\ out.country = gc[k].data.country
                 /\ out.lat = gc[k].data.lat
                 /\ out.lng = gc[k].data.lng
                 /\ out.score = score(k)
    IN  /\ passing = {} => out = NoPlace
        /\ major # {} => \E k \in major : Is(k) /\ \A j \in major : Ahead(k, j)
        /\ major = {} /\ passing # {} =>
              \E k \in passing : Is(k) /\ \A j \in passing : Ahead(k, j)

\* "Temarra" is closer to the small Temarras than to the large Temara, both pass
\* the threshold, and the large one is returned
C19_Witness ==
    /\ pc = "find_city_coordinates"
    /\ msg = <<"T","e","m","a","r","r","a">>
    /\ out.name = <<"T","e","m","a","r","a">>
    /\ RatLess(out.score, similarity(normalize_text(msg), <<"t","e","m","a","r","r","a","s">>))
    /\ RatGE(out.score, CITY_MATCH_THRESHOLD, 100)
    /\ \E k \in 1..Len(Engine.global_cities) :
          /\ Engine.global_cities[k].key = <<"t","e","m","a","r","r","a","s">>
          /\ ParsePopulation(Engine.global_cities[k].data.population) < 50000

\* C20: detect_city never returns a Moroccan city together with a global city;
\* when detect_moroccan_city finds a city the global component is None and
\* detect_global_city is not called, and detect_global_city is called only when
\* detect_moroccan_city returns None.
C20_MoroccanBeforeGlobal ==
    pc = "detect_city" =>
        /\ ~(out[1] # <<>> /\ out[2] # 0)
        /\ out[1] = detect_moroccan_city(Engine, msg)
        /\ detect_moroccan_city(Engine, msg) # <<>> =>
              out[2] = 0 /\ out[3] = <<"detect_moroccan_city">>
        /\ (\E k \in 1..Len(out[3]) : out[3][k] = "detect_global_city") =>
              detect_moroccan_city(Engine, msg) = <<>>

\* a text that names a Moroccan city and a city of the gazetteer: the Moroccan one
\* is returned, although detect_global_city alone would find the other
C20_Witness ==
    /\ pc = "detect_city"
    /\ out[1] # <<>>
    /\ out[2] = 0
    /\ out[3] = <<"detect_moroccan_city">>
    /\ detect_global_city(Engine, msg) # 0

\* C21: detect_moroccan_city gives the same city for the same text in every run,
\* whatever the order in which the collection of Moroccan cities is enumerated.
C21_SameCityEveryRun ==
    pc = "detect_city" =>
        \A seed \in {0, 1} :
            detect_moroccan_city([Engine EXCEPT !.moroccan_cities =
                                      SetOrder(seed, moroccan_cities)], msg) = out[1]

\* a text with two cities of the set, neither a key of the misspelling map: the
\* run returns the one its own enumeration meets first, another run the other
C21_Witness ==
    /\ pc = "detect_city"
    /\ msg = <<"R","a","b","a","t"," ","2"," ","F","e","s">>
    /\ out[1] = <<"r","a","b","a","t">>
    /\ detect_moroccan_city([Engine EXCEPT !.moroccan_cities = moroccan_cities], msg) = <<"f","e","s">>

\* C22: _extract_cities_from_text returns at most max_cities places, no two with
\* the same normalised name, in the order of the stages that can discover them
\* (city list, misspelling map, between/from pattern, n-grams); a place that only
\* a later stage discovers is returned only when the earlier stages discover fewer
\* than max_cities places.
C22_ExtractCascade ==
    pc = "_extract_cities_from_text" =>
        LET text == msg[1]
            Name(place) == normalize_text(place.name)
            listed == {Name(find_city_coordinates(Engine, Engine.cities[k])) :
                          k \in {x \in 1..Len(Engine.cities) :
                                    /\ WordSearch(normalize_text(Engine.cities[x]),
                                                  normalize_text(text))
                                    /\ find_city_coordinates(Engine, Engine.cities[x]) # NoPlace}}
            misspelt == {Name(find_city_coordinates(Engine, Engine.moroccan_city_misspellings[k][2])) :
                            k \in {x \in 1..Len(Engine.moroccan_city_misspellings) :
                                      /\ WordSearch(Engine.moroccan_city_misspellings[x][1],
                                                    normalize_text(text))
                                      /\ find_city_coordinates(Engine,
                                             Engine.moroccan_city_misspellings[x][2]) # NoPlace}}
            pair == IF SearchPair(Lower(text), <<"b","e","t","w","e","e","n">>, <<"a","n","d">>) # <<>>
                    THEN SearchPair(Lower(text), <<"b","e","t","w","e","e","n">>, <<"a","n","d">>)
                    ELSE SearchPair(Lower(text), <<"f","r","o","m">>, <<"t","o">>)
            paired == {Name(find_city_coordinates(Engine, pair[k])) :
                          k \in {x \in 1..Len(pair) :
                                    find_city_coordinates(Engine, pair[x]) # NoPlace}}
            Upto(s) == IF s = 1 THEN listed
                       ELSE IF s = 2 THEN listed \cup misspelt
                       ELSE listed \cup misspelt \cup paired
            Stage(place) == IF Name(place) \in listed THEN 1
                            ELSE IF Name(place) \in misspelt THEN 2
                            ELSE IF Name(place) \in paired THEN 3 ELSE 4
        IN  /\ Len(out) <= msg[2]
            /\ \A i, j \in 1..Len(out) : Name(out[i]) = Name(out[j]) => i = j
            /\ \A i, j \in 1..Len(out) : i < j => Stage(out[i]) <= Stage(out[j])
            /\ \A s \in 1..3 :
                  Cardinality(Upto(s)) >= msg[2] => \A i \in 1..Len(out) : Stage(out[i]) <= s
            /\ \A s \in 1..3 :
                  Cardinality(Upto(s)) < msg[2] => \A name \in Upto(s) :
                                                       \E i \in 1..Len(out) : Name(out[i]) = name

\* the city of the list is found first and the other place by the n-grams: the
\* order returned is that of the stages, not that of the text
C22_Witness ==
    /\ pc = "_extract_cities_from_text"
    /\ msg = <<<<"P","a","r","i","s"," ","R","a","b","a","t">>, 2>>
    /\ Len(out) = 2
    /\ out[1].name = <<"R","a","b","a","t">>
    /\ out[2].name = <<"P","a","r","i","s">>

\* C23: in the n-gram stage, once the place of an n-gram has been appended, no later
\* n-gram that shares a token with it is given to find_city_coordinates.
C23_SpanConsumed ==
    pc = "_extract_cities_from_text" =>
        \A p, q \in 1..Len(loc.passed) :
            p < q /\ loc.passed[p][3] =>
                \/ loc.passed[q][1] >= loc.passed[p][2]
                \/ loc.passed[q][2] <= loc.passed[p][1]

\* "Tokyo 2" resolves to Tokyo and its two tokens are marked; "2 Paris", which
\* shares the token 2, is looked up next and resolves to Paris
C23_Witness ==
    /\ pc = "_extract_cities_from_text"
    /\ msg = <<<<"T","o","k","y","o"," ","2"," ","P","a","r","i","s">>, 2>>
    /\ loc.used_spans = {<<0, 1>>, <<1, 2>>, <<2, 3>>}
    /\ \E p, q \in 1..Len(loc.passed) :
          /\ p < q
          /\ loc.passed[p] = <<0, 2, TRUE>>
          /\ loc.passed[q] = <<1, 3, TRUE>>
    /\ Len(out) = 2

\* C27: a place returned by find_city_coordinates has a score of at least 0.80 and
\* at most 1.0: 1.0 for a query that is a key, at least 0.90 for another query of up
\* to five characters; so get_city_distance never gives the "did you mean" reply.
C27_ScoreAtLeastThreshold ==
    /\ pc = "find_city_coordinates" /\ out # NoPlace =>
          /\ RatGE(out.score, CITY_MATCH_THRESHOLD, 100)
          /\ ~RatLess(<<1, 1>>, out.score)
          /\ Lookup(Engine.global_cities, normalize_text(msg)) # 0 => RatGE(out.score, 100, 100)
          /\ Len(normalize_text(msg)) <= 5 => RatGE(out.score, 90, 100)
    /\ pc = "get_city_distance" => out.kind # "did_you_mean"

\* a misspelt name of seven characters resolves with a score between 0.80 and 1.0
C27_Witness ==
    /\ pc = "find_city_coordinates"
    /\ msg = <<"T","e","m","a","r","r","a">>
    /\ out.name = <<"T","e","m","a","r","a">>
    /\ out.score = <<12, 13>>

\* C29 as stated: get_city_distance on the display names of two places that the
\* extractor produced states a computed distance.
C29_DistanceStated ==
    pc = "_extract_cities_from_text" /\ Len(out) >= 2 =>
        get_city_distance(heap[retriever], out[1].name, out[2].name).kind = "distance"

\* "Pila" resolves through city_ascii to the row whose display name has a letter that
\* normalize_text drops; the display name resolves to no place
C29_Witness ==
    /\ pc = "_extract_cities_from_text"
    /\ msg = <<<<"f","r","o","m"," ","P","i","l","a"," ","t","o"," ","T","o","k","y","o">>, 2>>
    /\ Len(out) = 2
    /\ out[1].name = <<"P","i","l_stroke","a">>
    /\ out[2].name = <<"T","o","k","y","o">>
    /\ find_city_coordinates(heap[retriever], out[1].name) = NoPlace
    /\ get_city_distance(heap[retriever], out[1].name, out[2].name).kind = "could_not_identify"

(***************************************************************************)
(* Properties of the callers (SpecCallers)                                 *)
(***************************************************************************)
\* C12: the chat handler and the command-line loop show the top answer as it is
\* exactly when its score is at least 0.2 and the 'outside my knowledge' message
\* otherwise; so a random fallback and the prompt for an empty question (score 0.0)
\* are never shown, the foreign-country message (0.3) and the clarifications (0.5)
\* always.
C12_ThresholdBothCallers ==
    \A t \in Threads :
        out[t].call # NoCall /\ ~out[t].call.raised /\ out[t].call.responses # <<>> =>
            /\ out[t].call.responses[1].score >= Score(2, 10) =>
                  /\ out[t].body = "answer"
                  /\ out[t].shown = <<out[t].call.responses[1].text>>
            /\ out[t].call.responses[1].score < Score(2, 10) =>
                  /\ out[t].body = "outside_knowledge"
                  /\ out[t].shown = <<>>
            /\ out[t].call.responses[1].text.kind \in {"fallback", "ask_a_question"} =>
                  /\ out[t].call.responses[1].score = 0
                  /\ out[t].body = "outside_knowledge"
            /\ out[t].call.responses[1].text.kind
                  \in {"foreign_country", "clarify_two_cities", "weather_which_city"} =>
                  /\ out[t].call.responses[1].score \in {Score(3, 10), Score(1, 2)}
                  /\ out[t].body = "answer"

\* the loop was given an empty line: the prompt for a question, score 0.0, is
\* replaced by the 'outside my knowledge' message
C12_Witness ==
    /\ pc[1] = "cli_shown"
    /\ out[1].call.branch = "empty"
    /\ out[1].call.responses[1].text.kind = "ask_a_question"
    /\ out[1].body = "outside_knowledge"
    /\ out[1].shown = <<>>
====
